---- MODULE Spec2Model ----
(***************************************************************************)
(* A model of the transform layer of the mononoke ETL pipeline             *)
(* (src/src/mononoke/pipeline/transform.py): the identity hasher, the      *)
(* field normaliser, the per-domain transformers and the CSV upsert.       *)
(*                                                                         *)
(* Values are strings throughout.  A Python None is the string "None", a   *)
(* pandas NaN/NaT is the string "NaN", a float is its repr ("1.5").  A CSV  *)
(* file on disk holds text cells, where a missing value is the empty text. *)
(***************************************************************************)
EXTENDS Integers, Sequences, FiniteSets, TLC

VARIABLES
    store,    \* the CSV files that exist under processed_data_dir, by path
    last,     \* the last call: its operation, arguments, outcome, stores before
    seen,     \* every <<domain, payload, instrument_id>> a transformer computed
    ncalls,   \* number of transformer calls made so far
    run,      \* the transform() run: its raw root, its position, its outcome
    workers,  \* two processes inside _upsert_csv: position, batch, what they read
    rawdir,   \* the raw root the extractor writes: its subdirectories and files
    client,   \* a QueryAlphaVantage client: its keys, its index, the request in progress
    db        \* the database tables the loader fills, and the loads made

vars == <<store, last, seen, ncalls, run, workers, rawdir, client, db>>

\* the variables of the extractor, the client, the loader and the
\* concurrent upserts, which the transformers leave alone
aux == <<workers, rawdir, client, db>>

None == "None"
NaN  == "NaN"

----------------------------------------------------------------------------
(* Generic helpers: Python dict.get, list filtering.                       *)

Get(d, k, default) == IF k \in DOMAIN d THEN d[k] ELSE default

RECURSIVE KeepIdx(_, _, _)
\* the subsequence of s at the indices i >= from that lie in the set idx
KeepIdx(s, idx, from) ==
    IF from > Len(s) THEN <<>>
    ELSE (IF from \in idx THEN <<s[from]>> ELSE <<>>) \o KeepIdx(s, idx, from + 1)

Range(s) == {s[i] : i \in DOMAIN s}

----------------------------------------------------------------------------
(* Dates: pd.to_datetime(col).dt.strftime('%Y-%m-%d').                     *)

D1    == "2024-01-31"
D2    == "2024-02-29"
D1us  == "01/31/2024"
D1ts  == "2024-01-31 00:00:00"
D2ts  == "2024-02-29 00:00:00"
DBad  == "not-a-date"

\* what pd.to_datetime parses, and the calendar day it yields
ParsedDay == (D1 :> D1) @@ (D2 :> D2) @@ (D1us :> D1) @@ (D1ts :> D1) @@ (D2ts :> D2)

\* a missing date (None, NaN) parses to NaT without an error
DateParsable(d) == d \in DOMAIN ParsedDay \cup {None, NaN}

\* bug variant: the text of a date that parses is kept as it is
NormDateRaw(d) == IF d \in DOMAIN ParsedDay THEN d ELSE NaN

\* strftime of the parsed value; NaT formats as NaN
NormDate(d) == IF d \in DOMAIN ParsedDay THEN ParsedDay[d] ELSE NaN

----------------------------------------------------------------------------
(* Data frames and CSV files.                                              *)
(* A frame is [cols: set of column names, rows: sequence of functions      *)
(* cols -> cell].  A file is [exists, cols, rows] with text cells.         *)

AbsentFile == [exists |-> FALSE, cols |-> {}, rows |-> <<>>]

\* path.exists() and the content behind it
FileAt(st, path) == IF path \in DOMAIN st THEN st[path] ELSE AbsentFile
NoFiles == [p \in {} |-> AbsentFile]

\* pd.DataFrame(list of dicts): the columns are the union of the keys, a
\* missing key or a None is a missing value
DataFrame(dicts) ==
    LET cols == UNION {DOMAIN dicts[i] : i \in DOMAIN dicts}
    IN [cols |-> cols,
        rows |-> [i \in DOMAIN dicts |->
                    [c \in cols |-> IF Get(dicts[i], c, None) = None THEN NaN
                                    ELSE dicts[i][c]]]]

\* DataFrame.to_csv(index=False): a missing value is written as empty text
ToCsvCell(v) == IF v = NaN THEN "" ELSE v
ToCsv(df) ==
    [exists |-> TRUE, cols |-> df.cols,
     rows |-> [i \in DOMAIN df.rows |-> [c \in df.cols |-> ToCsvCell(df.rows[i][c])]]]

\* pd.read_csv: empty text is read as a missing value
ReadCsvCell(t) == IF t = "" THEN NaN ELSE t
ReadCsv(file) ==
    [cols |-> file.cols,
     rows |-> [i \in DOMAIN file.rows |-> [c \in file.cols |-> ReadCsvCell(file.rows[i][c])]]]

\* bug variant: the rows read from the file are not carried over
ConcatNewOnly(a, b) ==
    LET cols == a.cols \cup b.cols
        Ext(r) == [c \in cols |-> IF c \in DOMAIN r THEN r[c] ELSE NaN]
    IN [cols |-> cols, rows |-> [i \in DOMAIN b.rows |-> Ext(b.rows[i])]]

\* pd.concat([a, b], ignore_index=True): union of the columns, NaN where absent
Concat(a, b) ==
    LET cols == a.cols \cup b.cols
        Ext(r) == [c \in cols |-> IF c \in DOMAIN r THEN r[c] ELSE NaN]
    IN [cols |-> cols,
        rows |-> [i \in DOMAIN a.rows |-> Ext(a.rows[i])] \o
                 [i \in DOMAIN b.rows |-> Ext(b.rows[i])]]

KeyOf(row, subset) == [c \in subset |-> row[c]]

\* bug variant: keep="first"
DropDuplicatesKeepFirst(df, subset) ==
    [df EXCEPT !.rows =
        KeepIdx(df.rows,
                {i \in DOMAIN df.rows :
                    \A j \in 1..(i - 1) : KeyOf(df.rows[j], subset) # KeyOf(df.rows[i], subset)},
                1)]

\* df.drop_duplicates(subset=subset, keep="last")
DropDuplicates(df, subset) ==
    [df EXCEPT !.rows =
        KeepIdx(df.rows,
                {i \in DOMAIN df.rows :
                    \A j \in (i + 1)..Len(df.rows) : KeyOf(df.rows[j], subset) # KeyOf(df.rows[i], subset)},
                1)]

\* df.dropna(subset=subset): a row goes when ANY of the subset is missing
DropNa(df, subset) ==
    [df EXCEPT !.rows =
        KeepIdx(df.rows, {i \in DOMAIN df.rows : \A c \in subset : df.rows[i][c] # NaN}, 1)]

\* df[col] = pd.to_datetime(df[col]).dt.strftime('%Y-%m-%d'), when it parses
NormDateColumn(df) ==
    [df EXCEPT !.rows = [i \in DOMAIN df.rows |->
                            [df.rows[i] EXCEPT !["date"] = NormDate(df.rows[i]["date"])]]]
DateColumnParses(df) == \A i \in DOMAIN df.rows : DateParsable(df.rows[i]["date"])

\* bug variant: the batch replaces the file
upsert_csv_overwrite(file, df, subset) == [raised |-> FALSE, file |-> ToCsv(df)]

\* Transform._upsert_csv: the file afterwards and whether the call raised.
\* read_csv raises EmptyDataError on a file without columns (the file that
\* to_csv writes for pd.DataFrame([])).
upsert_csv(file, df, subset) ==
    IF ~file.exists THEN [raised |-> FALSE, file |-> ToCsv(df)]
    ELSE IF file.cols = {} THEN [raised |-> TRUE, file |-> file]
    ELSE LET prev0 == ReadCsv(file)
             prev  == IF "date" \in prev0.cols THEN NormDateColumn(prev0) ELSE prev0
         IN IF "date" \in prev0.cols /\ ~DateColumnParses(prev0)
            THEN [raised |-> TRUE, file |-> file]
            ELSE [raised |-> FALSE,
                  file |-> ToCsv(DropDuplicates(Concat(prev, df), subset))]

----------------------------------------------------------------------------
(* Identity hasher and field normaliser.                                   *)

RECURSIVE JoinBar(_)
\* "|".join(args)
JoinBar(args) ==
    IF Len(args) = 0 THEN ""
    ELSE IF Len(args) = 1 THEN args[1]
    ELSE args[1] \o "|" \o JoinBar(Tail(args))

\* hashlib.md5(basis).hexdigest(), as an injective tag of the basis
Md5Hex(basis) == "md5(" \o basis \o ")"

\* "|".join raises TypeError on an element that is not a str
JoinRaises(args) == \E i \in DOMAIN args : args[i] = None

\* bug variant: an id that depends on the call, not on the basis alone
generate_hash_id_salted(source, data_type, args) ==
    Md5Hex(source \o "|" \o data_type \o "|" \o JoinBar(args) \o "#" \o ToString(ncalls))

\* Transform.generate_hash_id, for args that are all str
generate_hash_id(source, data_type, args) ==
    Md5Hex(source \o "|" \o data_type \o "|" \o JoinBar(args))

\* float(value) of the numeric texts the payloads use, as its repr
FloatOf == ("1.50" :> "1.5") @@ ("2" :> "2.0")

\* Transform._to_float: None for None and for what float() rejects
to_float(v) == IF v \in DOMAIN FloatOf THEN FloatOf[v] ELSE None

----------------------------------------------------------------------------
(* The stores under processed_data_dir and the key each is upserted on.    *)

CommInst   == "commodities/instruments.csv"
CommTs     == "commodities/timeseries.csv"
CryptoInst == "cryptocurrencies/instruments.csv"
CryptoTs   == "cryptocurrencies/timeseries.csv"
StockInst  == "stocks/instruments.csv"
StockTs    == "stocks/timeseries.csv"
ForexInst  == "forex/instruments.csv"
ForexTs    == "forex/timeseries.csv"
RatesCsv   == "exchange_rates/exchange_rates.csv"
InfoCsv    == "yahoo_financials/information.csv"
OfficersCsv == "yahoo_financials/company_officers.csv"
FinCsv     == "yahoo_financials/financials.csv"

InstPaths == {CommInst, CryptoInst, StockInst, ForexInst}
TsPaths   == {CommTs, CryptoTs, StockTs, ForexTs}
Paths     == InstPaths \cup TsPaths \cup {RatesCsv, InfoCsv, OfficersCsv, FinCsv}

\* the subset= argument of each _upsert_csv call site
KeyColumns(path) ==
    IF path \in TsPaths \cup {FinCsv} THEN {"instrument_id", "date"}
    ELSE IF path = OfficersCsv THEN {"instrument_id", "name"}
    ELSE {"instrument_id"}

----------------------------------------------------------------------------
(* The per-domain transformers.  A raw payload is the parsed JSON: a dict  *)
(* is a function on its keys, an ordered dict of date -> values is a       *)
(* sequence of <<date, values>> pairs, a list is a sequence.               *)
(* A transformer yields [raised, st, ids, warned, ts]: whether it raised,  *)
(* the stores afterwards, the instrument ids it computed, the values       *)
(* _to_float warned about, the ts list it built.                           *)

Source == "Alpha Vantage"

Raised(st, ids, warned) ==
    [raised |-> TRUE, st |-> st, ids |-> ids, warned |-> warned, ts |-> <<>>]

\* bug variant: an instruments store that exists is left as it is
WriteBothInsertOnly(st, instPath, df_meta, tsPath, df_ts) ==
    LET a   == upsert_csv(FileAt(st, instPath), df_meta, KeyColumns(instPath))
        st1 == IF instPath \in DOMAIN st THEN st ELSE (instPath :> a.file) @@ st
        b   == upsert_csv(FileAt(st1, tsPath), df_ts, KeyColumns(tsPath))
    IN IF a.raised THEN [raised |-> TRUE, st |-> st]
       ELSE IF b.raised THEN [raised |-> TRUE, st |-> st1]
       ELSE [raised |-> FALSE, st |-> (tsPath :> b.file) @@ st1]

\* the two trailing _upsert_csv calls of a time-series transformer: the
\* instruments store first, the timeseries store second; the first to raise
\* ends the call
WriteBoth(st, instPath, df_meta, tsPath, df_ts) ==
    LET a   == upsert_csv(FileAt(st, instPath), df_meta, KeyColumns(instPath))
        st1 == (instPath :> a.file) @@ st
        b   == upsert_csv(FileAt(st1, tsPath), df_ts, KeyColumns(tsPath))
    IN IF a.raised THEN [raised |-> TRUE, st |-> st]
       ELSE IF b.raised THEN [raised |-> TRUE, st |-> st1]
       ELSE [raised |-> FALSE, st |-> (tsPath :> b.file) @@ st1]

\* from df_meta = pd.DataFrame([meta]) to the end of a time-series
\* transformer: normalise the dates of a non-empty frame (to_datetime raises
\* on a text it cannot parse), drop the rows dropna(subset=naSubset) drops
\* (naSubset = {} where the transformer calls no dropna), upsert both stores
EmitTs(st, meta, ts, warned, instPath, tsPath, naSubset) ==
    LET df_meta == DataFrame(<<meta>>)
        df_ts0  == DataFrame(ts)
        ids     == {meta["instrument_id"]}
    IN IF Len(ts) > 0 /\ ~DateColumnParses(df_ts0)
       THEN [Raised(st, ids, warned) EXCEPT !.ts = ts]
       ELSE LET df_ts == IF Len(ts) > 0 THEN DropNa(NormDateColumn(df_ts0), naSubset)
                         ELSE df_ts0
                w == WriteBoth(st, instPath, df_meta, tsPath, df_ts)
            IN [raised |-> w.raised, st |-> w.st, ids |-> ids, warned |-> warned, ts |-> ts]

\* the provider's key of each numeric column
RawKey ==
    ("open" :> "1. open") @@ ("high" :> "2. high") @@ ("low" :> "3. low") @@
    ("close" :> "4. close") @@ ("volume" :> "5. volume")

Ohlcv == {"open", "high", "low", "close", "volume"}
Ohlc  == {"open", "high", "low", "close"}

\* one dict of the ts list of the stock, forex and crypto transformers
OhlcRow(hashing, entry, fields) ==
    ("instrument_id" :> hashing) @@ ("date" :> entry[1]) @@
    [f \in fields |-> to_float(Get(entry[2], RawKey[f], None))]

OhlcWarned(series, fields) ==
    {Get(series[i][2], RawKey[f], None) : i \in DOMAIN series, f \in fields}
        \ ({None} \cup DOMAIN FloatOf)

\* Transform.transform_stock
transform_stock(st, raw) ==
    IF "Meta Data" \notin DOMAIN raw \/ "Time Series (Daily)" \notin DOMAIN raw
    THEN Raised(st, {}, {})
    ELSE LET metadata     == raw["Meta Data"]
             time_series  == raw["Time Series (Daily)"]
             last_updated == Get(metadata, "3. Last Refreshed", None)
             symbol       == Get(metadata, "2. Symbol", None)
         IN IF JoinRaises(<<symbol>>) THEN Raised(st, {}, {})
            ELSE LET hashing == generate_hash_id(Source, "stock", <<symbol>>)
                     meta == [instrument_id |-> hashing, source |-> Source,
                              data_type |-> "stock", symbol |-> symbol,
                              last_updated |-> last_updated]
                     ts == [i \in DOMAIN time_series |-> OhlcRow(hashing, time_series[i], Ohlcv)]
                 IN EmitTs(st, meta, ts, OhlcWarned(time_series, Ohlcv), StockInst, StockTs,
                           {"instrument_id", "date"} \cup Ohlcv)

\* the symbol transform_forex builds from the two currency codes
ForexSymbol(from, to) == from \o "_" \o to

\* Transform.transform_forex; None + "_" raises TypeError, and so does
\* str + None
transform_forex(st, raw) ==
    IF "Meta Data" \notin DOMAIN raw \/ "Time Series FX (Daily)" \notin DOMAIN raw
    THEN Raised(st, {}, {})
    ELSE LET metadata    == raw["Meta Data"]
             time_series == raw["Time Series FX (Daily)"]
             from        == Get(metadata, "2. From Symbol", None)
             to          == Get(metadata, "3. To Symbol", None)
         IN IF from = None \/ to = None THEN Raised(st, {}, {})
            ELSE LET symbol       == ForexSymbol(from, to)
                     last_updated == Get(metadata, "5. Last Refreshed", None)
                     hashing == generate_hash_id(Source, "forex", <<symbol>>)
                     meta == [instrument_id |-> hashing, source |-> Source,
                              data_type |-> "forex", symbol |-> symbol,
                              last_updated |-> last_updated]
                     ts == [i \in DOMAIN time_series |-> OhlcRow(hashing, time_series[i], Ohlc)]
                 IN EmitTs(st, meta, ts, OhlcWarned(time_series, Ohlc), ForexInst, ForexTs,
                           {"instrument_id", "date"} \cup Ohlc)

\* Python's `a or b`, for str and None
Or(a, b) == IF a = None \/ a = "" THEN b ELSE a

\* Transform.transform_crypto: both blocks default to {}, and there is no
\* dropna
transform_crypto(st, raw) ==
    LET metadata      == Get(raw, "Meta Data", <<>>)
        time_series   == Get(raw, "Time Series (Digital Currency Daily)", <<>>)
        currency_code == Or(Get(metadata, "2. Digital Currency Code", None),
                            Get(metadata, "3. Digital Currency Name", None))
        market_code   == Get(metadata, "4. Market Code", None)
        last_updated  == Get(metadata, "6. Last Refreshed", None)
        hashing == generate_hash_id(Source, "cryptocurrency",
                                    <<Or(currency_code, ""), Or(market_code, "")>>)
        meta == [instrument_id |-> hashing, source |-> Source,
                 data_type |-> "cryptocurrency", currency_code |-> currency_code,
                 market_code |-> market_code, last_updated |-> last_updated]
        ts == [i \in DOMAIN time_series |-> OhlcRow(hashing, time_series[i], Ohlcv)]
    IN EmitTs(st, meta, ts, OhlcWarned(time_series, Ohlcv), CryptoInst, CryptoTs, {})

\* _to_float logs a warning for what float() rejects, never for None
LogsWarning(v) == v # None /\ v \notin DOMAIN FloatOf

\* bug variant: the placeholder is coerced like any other value
price_value_coerced(row) ==
    LET value == Get(row, "value", None)
    IN [price |-> to_float(value), coerced |-> {value}]

\* price_value of one data point, and the values handed to _to_float for
\* it: str(value) is "." for the text "." only
price_value(row) ==
    LET value == Get(row, "value", None)
    IN IF value # "." THEN [price |-> to_float(value), coerced |-> {value}]
       ELSE [price |-> None, coerced |-> {}]

\* Transform.transform_commodity: every key defaults, the placeholder "."
\* never reaches _to_float
transform_commodity(st, raw) ==
    LET time_series == Get(raw, "data", <<>>)
        info        == Get(raw, "name", "")
        unit        == Get(raw, "unit", "")
        hashing     == generate_hash_id(Source, "commodity", <<info>>)
        meta == [instrument_id |-> hashing, source |-> Source,
                 data_type |-> "commodity", info |-> info, unit |-> unit]
        ts == [i \in DOMAIN time_series |->
                 [instrument_id |-> hashing,
                  date |-> Get(time_series[i], "date", None),
                  price |-> price_value(time_series[i]).price]]
        warned == {v \in UNION {price_value(time_series[i]).coerced : i \in DOMAIN time_series} :
                      LogsWarning(v)}
    IN EmitTs(st, meta, ts, warned, CommInst, CommTs, {"instrument_id", "date", "price"})

\* bug variant: a missing block defaults to {} instead of raising
transform_exchange_rate_lenient(st, raw) ==
    LET block == Get(raw, "Realtime Currency Exchange Rate", <<>>)
        from  == Get(block, "1. From_Currency Code", "")
        to    == Get(block, "3. To_Currency Code", "")
        hashing == generate_hash_id(Source, "exchange_rate", <<from, to>>)
        data == [instrument_id |-> hashing, source |-> Source,
                 data_type |-> "exchange_rate",
                 from_currency_code |-> from, to_currency_code |-> to,
                 exchange_rate |-> to_float(Get(block, "5. Exchange Rate", None)),
                 last_refreshed |-> Get(block, "6. Last Refreshed", None),
                 bid_price |-> to_float(Get(block, "8. Bid Price", None)),
                 ask_price |-> to_float(Get(block, "9. Ask Price", None))]
        r == upsert_csv(FileAt(st, RatesCsv), DataFrame(<<data>>), KeyColumns(RatesCsv))
    IN [raised |-> r.raised, st |-> IF r.raised THEN st ELSE (RatesCsv :> r.file) @@ st,
        ids |-> {hashing}, warned |-> {}, ts |-> <<>>]

\* Transform.transform_exchange_rate
transform_exchange_rate(st, raw) ==
    IF "Realtime Currency Exchange Rate" \notin DOMAIN raw THEN Raised(st, {}, {})
    ELSE LET block == raw["Realtime Currency Exchange Rate"]
             from  == Get(block, "1. From_Currency Code", "")
             to    == Get(block, "3. To_Currency Code", "")
             hashing == generate_hash_id(Source, "exchange_rate", <<from, to>>)
             data == [instrument_id |-> hashing, source |-> Source,
                      data_type |-> "exchange_rate",
                      from_currency_code |-> from, to_currency_code |-> to,
                      exchange_rate |-> to_float(Get(block, "5. Exchange Rate", None)),
                      last_refreshed |-> Get(block, "6. Last Refreshed", None),
                      bid_price |-> to_float(Get(block, "8. Bid Price", None)),
                      ask_price |-> to_float(Get(block, "9. Ask Price", None))]
             warned == {Get(block, k, None) :
                           k \in {"5. Exchange Rate", "8. Bid Price", "9. Ask Price"}}
                          \ ({None} \cup DOMAIN FloatOf)
             r == upsert_csv(FileAt(st, RatesCsv), DataFrame(<<data>>), KeyColumns(RatesCsv))
         IN [raised |-> r.raised, st |-> IF r.raised THEN st ELSE (RatesCsv :> r.file) @@ st,
             ids |-> {hashing}, warned |-> warned, ts |-> <<>>]

MaxCalls == 2

\* two processes that have not entered _upsert_csv
IdleWorkers ==
    [p \in {1, 2} |-> [pc |-> "idle", df |-> [cols |-> {}, rows |-> <<>>],
                       base |-> AbsentFile, behind |-> 0, order |-> 0]]

\* Extract.__init__ creates the raw root and nothing under it
FreshRaw == [dirs |-> {}, files |-> {}, done |-> {}, calls |-> 0]

\* QueryAlphaVantage.__init__ with n non-empty keys
NewClient(n) ==
    [keys |-> n, current_key_index |-> 0, pc |-> "idle", entry |-> 0, requests |-> 0,
     outcome |-> "none", resp |-> "none", used |-> 0, limited |-> {}, reused |-> {},
     calls |-> 0]

\* a database without tables
EmptyDb == [tables |-> [t \in {} |-> <<>>], loads |-> 0, raised |-> FALSE]

AuxInit ==
    /\ workers = IdleWorkers
    /\ rawdir = FreshRaw
    /\ client = NewClient(1)
    /\ db = EmptyDb

Init ==
    /\ store = NoFiles
    /\ last = [op |-> "init"]
    /\ seen = {}
    /\ ncalls = 0
    /\ run = [status |-> "idle", root_exists |-> TRUE, root |-> <<>>, f |-> 1, k |-> 1,
              error |-> FALSE, log |-> <<>>]
    /\ AuxInit

----------------------------------------------------------------------------
(* The financials aggregator.  The raw directory is a function from file   *)
(* names to parsed documents; a file name is <<stem, suffix>>, the name    *)
(* split at the suffix the glob matches ("AAA_industry_info.json" is       *)
(* <<"AAA_industry", "_info.json">>).                                      *)

FinSuffix  == "_financials.json"
InfoSuffix == "_info.json"

\* the stems of the model's files, in sorted() order
StemOrder == <<"AAA", "AAA_industry", "BBB", "BBB_industry">>

\* {p.name.replace(suffix, ""): p for p in directory.glob("*" + suffix)}
GlobStems(dir, suffix) == {n[1] : n \in {m \in DOMAIN dir : m[2] = suffix}}

\* Transform.info_type
info_type(file) ==
    [information_table |->
        [k \in DOMAIN file \ {"sector_top_companies", "companyOfficers"} |-> file[k]],
     company_officers_table |-> Get(file, "companyOfficers", <<>>)]

\* Transform.financial_type: one record per date key
financial_type(file) ==
    [i \in DOMAIN file |-> ("date" :> file[i][1]) @@ file[i][2]]

\* the value of the numeric texts of the statements, and a number's repr
NumOf == ("10.0" :> 10) @@ ("20.0" :> 20)

RECURSIVE Gcd(_, _)
Gcd(a, b) == IF b = 0 THEN a ELSE Gcd(b, a % b)

RECURSIVE SumOf(_)
SumOf(nums) == IF nums = <<>> THEN 0 ELSE Head(nums) + SumOf(Tail(nums))

\* Series.mean() of the non-missing values, as text: "15.0", or the exact
\* fraction ("40/3") where the mean is no whole number
MeanText(nums) ==
    LET sum == SumOf(nums)
        n   == Len(nums)
        g   == Gcd(sum, n)
    IN IF sum % n = 0 THEN ToString(sum \div n) \o ".0"
       ELSE ToString(sum \div g) \o "/" \o ToString(n \div g)

IdentityCols == {"instrument_id", "symbol", "date"}

\* fin_df.dropna(thresh=int(len(fin_df.columns) * 0.4)): a row stays when at
\* least thresh of ALL its cells are present
DropSparse(df) ==
    LET thresh == (2 * Cardinality(df.cols)) \div 5
    IN [df EXCEPT !.rows =
          KeepIdx(df.rows,
                  {i \in DOMAIN df.rows :
                      Cardinality({c \in df.cols : df.rows[i][c] # NaN}) >= thresh},
                  1)]

\* bug variant: the mean of a column is taken per instrument, not over the
\* whole frame
FillMeansPerSymbol(df) ==
    LET present(c, id) ==
            KeepIdx(df.rows, {i \in DOMAIN df.rows :
                                df.rows[i][c] # NaN /\ df.rows[i]["instrument_id"] = id}, 1)
        nums(c, id)    == [i \in DOMAIN present(c, id) |-> NumOf[present(c, id)[i][c]]]
        numeric(c, id) == c \notin IdentityCols /\ present(c, id) # <<>>
    IN [df EXCEPT !.rows =
          [i \in DOMAIN df.rows |->
             [c \in df.cols |->
                IF df.rows[i][c] = NaN /\ numeric(c, df.rows[i]["instrument_id"])
                THEN MeanText(nums(c, df.rows[i]["instrument_id"])) ELSE df.rows[i][c]]]]

\* fin_df.fillna(fin_df.mean(numeric_only=True)): a column with a number in
\* it gets its gaps filled with the mean of its numbers
FillMeans(df) ==
    LET present(c) == KeepIdx(df.rows, {i \in DOMAIN df.rows : df.rows[i][c] # NaN}, 1)
        nums(c)    == [i \in DOMAIN present(c) |-> NumOf[present(c)[i][c]]]
        numeric(c) == c \notin IdentityCols /\ present(c) # <<>>
    IN [df EXCEPT !.rows =
          [i \in DOMAIN df.rows |->
             [c \in df.cols |-> IF df.rows[i][c] = NaN /\ numeric(c)
                                THEN MeanText(nums(c)) ELSE df.rows[i][c]]]]

\* re.sub(r"\D", "", text) of the texts the info documents use; a missing
\* cell is the text "nan" after astype(str)
DigitsOf == ("94-105" :> "94105") @@ ("555 0100" :> "5550100") @@ (NaN :> "")

CleanDigits(df) ==
    [df EXCEPT !.rows =
        [i \in DOMAIN df.rows |->
           [c \in df.cols |-> IF c \in {"zip", "phone"} THEN DigitsOf[df.rows[i][c]]
                              ELSE df.rows[i][c]]]]

DropColumn(df, col) ==
    [cols |-> df.cols \ {col},
     rows |-> [i \in DOMAIN df.rows |-> [c \in df.cols \ {col} |-> df.rows[i][c]]]]

\* bug variant: a symbol yields rows only when both of its files are there
SymbolRowsPaired(dir, symbol) ==
    LET hasInfo == <<symbol, InfoSuffix>> \in DOMAIN dir
        hasFin  == <<symbol, FinSuffix>> \in DOMAIN dir
        parsed  == IF hasInfo THEN info_type(dir[<<symbol, InfoSuffix>>])
                   ELSE [information_table |-> <<>>, company_officers_table |-> <<>>]
        info_table == IF "symbol" \in DOMAIN parsed.information_table
                      THEN parsed.information_table
                      ELSE ("symbol" :> symbol) @@ parsed.information_table
        officers == parsed.company_officers_table
        finance_records == IF hasFin THEN financial_type(dir[<<symbol, FinSuffix>>]) ELSE <<>>
        instrument_id == generate_hash_id("Yahoo Financials", "financials",
                                          <<info_table["symbol"]>>)
        ident == ("instrument_id" :> instrument_id) @@ ("symbol" :> info_table["symbol"])
    IN [id |-> instrument_id,
        info |-> IF hasInfo /\ hasFin THEN <<info_table @@ ("instrument_id" :> instrument_id)>>
                 ELSE <<>>,
        officers |-> IF hasInfo /\ hasFin THEN [i \in DOMAIN officers |-> officers[i] @@ ident]
                     ELSE <<>>,
        fin |-> IF hasInfo /\ hasFin
                THEN [i \in DOMAIN finance_records |-> finance_records[i] @@ ident]
                ELSE <<>>]

\* the body of the loop over the symbols, for one symbol: its info row, its
\* officer rows and its statement rows.  info_table always gets a "symbol",
\* so the fallback to the symbol of the financials document is dead code.
SymbolRows(dir, symbol) ==
    LET hasInfo == <<symbol, InfoSuffix>> \in DOMAIN dir
        hasFin  == <<symbol, FinSuffix>> \in DOMAIN dir
        parsed  == IF hasInfo THEN info_type(dir[<<symbol, InfoSuffix>>])
                   ELSE [information_table |-> <<>>, company_officers_table |-> <<>>]
        info_table == IF "symbol" \in DOMAIN parsed.information_table
                      THEN parsed.information_table
                      ELSE ("symbol" :> symbol) @@ parsed.information_table
        officers == parsed.company_officers_table
        finance_records == IF hasFin THEN financial_type(dir[<<symbol, FinSuffix>>]) ELSE <<>>
        instrument_id == generate_hash_id("Yahoo Financials", "financials",
                                          <<info_table["symbol"]>>)
        ident == ("instrument_id" :> instrument_id) @@ ("symbol" :> info_table["symbol"])
    IN [id |-> instrument_id,
        info |-> <<info_table @@ ("instrument_id" :> instrument_id)>>,
        officers |-> [i \in DOMAIN officers |-> officers[i] @@ ident],
        fin |-> [i \in DOMAIN finance_records |-> finance_records[i] @@ ident]]

RECURSIVE ConcatRows(_, _, _)
\* the rows of one kind ("info", "officers", "fin") over the sorted symbols
ConcatRows(dir, symbols, kind) ==
    IF symbols = <<>> THEN <<>>
    ELSE SymbolRows(dir, Head(symbols))[kind] \o ConcatRows(dir, Tail(symbols), kind)

\* one _upsert_csv of the aggregator, made when its list of rows is not
\* empty, threaded through the outcome so far
ThenUpsert(o, rows, path, df) ==
    IF o.raised \/ rows = <<>> THEN o
    ELSE LET r == upsert_csv(FileAt(o.st, path), df, KeyColumns(path))
         IN IF r.raised THEN [o EXCEPT !.raised = TRUE]
            ELSE [o EXCEPT !.st = (path :> r.file) @@ o.st]

\* Transform.transform_yahoo_financials over an existing directory; yields
\* [raised, st, ids, fin0, fin1]: fin0 the statement frame before the
\* threshold, fin1 the frame handed to _upsert_csv
transform_yahoo_financials(st, dir) ==
    LET stems   == GlobStems(dir, FinSuffix) \cup GlobStems(dir, InfoSuffix)
        symbols == KeepIdx(StemOrder, {i \in DOMAIN StemOrder : StemOrder[i] \in stems}, 1)
        info_rows      == ConcatRows(dir, symbols, "info")
        officers_rows  == ConcatRows(dir, symbols, "officers")
        financial_rows == ConcatRows(dir, symbols, "fin")
        ids     == {SymbolRows(dir, symbols[i]).id : i \in DOMAIN symbols}
        info_df == DropColumn(CleanDigits(DataFrame(info_rows)), "ipoExpectedDate")
        fin0    == DataFrame(financial_rows)
        fin1    == FillMeans(DropSparse(NormDateColumn(fin0)))
        empty   == [cols |-> {}, rows |-> <<>>]
        o0 == [raised |-> FALSE, st |-> st, ids |-> ids, fin0 |-> fin0, fin1 |-> empty]
        o1 == ThenUpsert(o0, info_rows, InfoCsv, info_df)
        o2 == ThenUpsert(o1, officers_rows, OfficersCsv, DataFrame(officers_rows))
    IN IF symbols = <<>> THEN o0
       ELSE IF o2.raised \/ financial_rows = <<>> THEN o2
       ELSE IF ~DateColumnParses(fin0) THEN [o2 EXCEPT !.raised = TRUE]
       ELSE ThenUpsert([o2 EXCEPT !.fin1 = fin1], financial_rows, FinCsv, fin1)

----------------------------------------------------------------------------
(* Raw payloads the transformers are called with.                          *)

\* the numeric fields of one date: all valid, all valid with other values,
\* one invalid and one absent, none valid
VGood  == [f \in Range(RawKey) |-> "1.50"]
VGood2 == [f \in Range(RawKey) |-> "2"]
VPart  == ("1. open" :> "abc") @@ [f \in Range(RawKey) \ {"1. open", "5. volume"} |-> "1.50"]
VNull  == [f \in Range(RawKey) |-> "abc"]

OhlcEntries ==
    {<<d, v>> : d \in {D1, D2}, v \in {VGood, VGood2, VPart, VNull}}
        \cup {<<DBad, VGood>>, <<D1us, VGood2>>}

\* date-keyed blocks: the keys of a JSON object differ, and the dates of
\* one payload that parse share one format
OneEntry == <<<<D1, VGood>>>>
OhlcSeries ==
    {<<>>} \cup {<<e>> : e \in OhlcEntries}
           \cup {OneEntry \o <<e>> : e \in {x \in OhlcEntries : x[1] \in {D2, DBad}}}

\* the payloads of one domain: every series under one complete Meta Data,
\* every Meta Data over one series, and each required block missing
BlockPayloads(tsKey, metas, meta0) ==
    {("Meta Data" :> meta0) @@ (tsKey :> s) : s \in OhlcSeries}
        \cup {("Meta Data" :> m) @@ (tsKey :> OneEntry) : m \in metas}
        \cup {("Meta Data" :> meta0), (tsKey :> OneEntry)}

StockMeta(sym) == ("2. Symbol" :> sym) @@ ("3. Last Refreshed" :> D2)
StockPayloads ==
    BlockPayloads("Time Series (Daily)",
                  {StockMeta("IBM"), StockMeta("MSFT"), ("3. Last Refreshed" :> D2)},
                  StockMeta("IBM"))

ForexMeta == ("2. From Symbol" :> "EUR") @@ ("3. To Symbol" :> "USD") @@ ("5. Last Refreshed" :> D2)
ForexPayloads ==
    BlockPayloads("Time Series FX (Daily)",
                  {ForexMeta,
                   ("2. From Symbol" :> "USD") @@ ("3. To Symbol" :> "EUR"),
                   ("2. From Symbol" :> "EUR"),
                   ("3. To Symbol" :> "USD")},
                  ForexMeta)

CryptoMeta ==
    ("2. Digital Currency Code" :> "BTC") @@ ("3. Digital Currency Name" :> "Bitcoin") @@
    ("4. Market Code" :> "USD") @@ ("6. Last Refreshed" :> D2)
CryptoPayloads ==
    BlockPayloads("Time Series (Digital Currency Daily)",
                  {CryptoMeta,
                   ("3. Digital Currency Name" :> "Bitcoin") @@ ("4. Market Code" :> "USD"),
                   ("2. Digital Currency Code" :> "BTC"),
                   ("4. Market Code" :> "USD")},
                  CryptoMeta)

\* commodity data points: dates may repeat or be absent, "." stands for
\* "no data"
CommPoint(d, v) == ("date" :> d) @@ ("value" :> v)
CommPoints ==
    {CommPoint(d, v) : d \in {D1, D2}, v \in {"1.50", "2", "abc", "."}}
        \cup {CommPoint(DBad, "1.50"), CommPoint(D1us, "2"),
              ("value" :> "1.50"), ("date" :> D1)}
OnePoint == <<CommPoint(D1, "1.50")>>
CommSeries ==
    {<<>>} \cup {<<e>> : e \in CommPoints}
           \cup {OnePoint \o <<e>> : e \in {x \in CommPoints : Get(x, "date", None) # D1us}}
           \cup {<<CommPoint(D1, "."), CommPoint(D2, "abc"), ("date" :> D1)>>}
CommPayloads ==
    {("name" :> "Aluminum") @@ ("unit" :> "USD") @@ ("data" :> s) : s \in CommSeries}
        \cup {("name" :> "Copper") @@ ("unit" :> "USD") @@ ("data" :> OnePoint),
              ("unit" :> "USD") @@ ("data" :> OnePoint),
              ("name" :> "Aluminum") @@ ("unit" :> "USD")}

RateBlock(from, to, rate) ==
    ("1. From_Currency Code" :> from) @@ ("3. To_Currency Code" :> to) @@
    ("5. Exchange Rate" :> rate) @@ ("6. Last Refreshed" :> D2) @@
    ("8. Bid Price" :> "1.50") @@ ("9. Ask Price" :> "abc")
RatePayloads ==
    {("Realtime Currency Exchange Rate" :> b) :
        b \in {RateBlock("EUR", "USD", "1.50"), RateBlock("EUR", "USD", "2"),
               RateBlock("USD", "EUR", "2"),
               ("3. To_Currency Code" :> "USD") @@ ("5. Exchange Rate" :> "2"),
               ("1. From_Currency Code" :> "EUR") @@ ("5. Exchange Rate" :> "2")}}
        \cup {("Information" :> "rate limit")}

----------------------------------------------------------------------------
(* Calls of the transformers, one payload each, in any order.              *)

\* the effect of one transformer call; r is its outcome, evaluated once
Call(dom, raw, r) ==
    /\ store' = r.st
    /\ last' = [op |-> "transform", dom |-> dom, raw |-> raw, raised |-> r.raised,
                ids |-> r.ids, warned |-> r.warned, ts |-> r.ts, pre |-> store]
    /\ seen' = seen \cup {<<dom, raw, id>> : id \in r.ids}
    /\ ncalls' = ncalls + 1
    /\ run' = run
    /\ UNCHANGED aux

Stock(raw) ==
    /\ ncalls < MaxCalls
    /\ \E r \in {transform_stock(store, raw)} : Call("stocks", raw, r)

Forex(raw) ==
    /\ ncalls < MaxCalls
    /\ \E r \in {transform_forex(store, raw)} : Call("forex", raw, r)

Crypto(raw) ==
    /\ ncalls < MaxCalls
    /\ \E r \in {transform_crypto(store, raw)} : Call("cryptocurrencies", raw, r)

Commodity(raw) ==
    /\ ncalls < MaxCalls
    /\ \E r \in {transform_commodity(store, raw)} : Call("commodities", raw, r)

ExchangeRate(raw) ==
    /\ ncalls < MaxCalls
    /\ \E r \in {transform_exchange_rate(store, raw)} : Call("exchange_rates", raw, r)


NextTs ==
    \/ \E raw \in StockPayloads : Stock(raw)
    \/ \E raw \in ForexPayloads : Forex(raw)
    \/ \E raw \in CryptoPayloads : Crypto(raw)
    \/ \E raw \in CommPayloads : Commodity(raw)
    \/ \E raw \in RatePayloads : ExchangeRate(raw)

SpecTs == Init /\ [][NextTs]_vars

----------------------------------------------------------------------------
(* Raw yahoo_financials directories and calls of the aggregator.           *)

Items ==
    {"Total Revenue", "Cost Of Revenue", "Gross Profit", "Operating Income", "EBIT",
     "EBITDA", "Interest Expense", "Tax Provision", "Net Income", "Basic EPS"}
Items5 == {"Total Revenue", "Cost Of Revenue", "Gross Profit", "Operating Income", "EBIT"}
Items3 == {"Total Revenue", "Cost Of Revenue", "Gross Profit"}
Items1 == {"Total Revenue"}

\* the line items of one statement date: those in `present` carry v, the
\* rest of `keys` are null
Statement(keys, present, v) == [k \in keys |-> IF k \in present THEN v ELSE None]

FinDocs ==
    {<<>>,
     <<<<D1ts, Statement(Items, Items, "10.0")>>>>,
     <<<<D1ts, Statement(Items, Items, "10.0")>>, <<D2ts, Statement(Items, Items3, "20.0")>>>>,
     <<<<D1ts, Statement(Items, Items, "20.0")>>, <<D2ts, Statement(Items, Items1, "10.0")>>>>,
     <<<<D1ts, Statement(Items, Items5, "10.0")>>, <<D2ts, Statement(Items, Items, "20.0")>>>>,
     <<<<D1ts, Statement(Items3, Items1, "10.0")>>>>,
     <<<<D1ts, Statement(Items, Items1, "10.0")>>,
       <<D2ts, Statement(Items, Items \ Items1, "10.0")>>>>,
     <<<<DBad, Statement(Items, Items, "10.0")>>>>}

Officer(name, title) == [name |-> name, title |-> title]
InfoFull(sym) ==
    ("symbol" :> sym) @@ ("zip" :> "94-105") @@ ("phone" :> "555 0100") @@
    ("companyOfficers" :> <<Officer("Ann", "CEO"), Officer("Bob", "CFO")>>) @@
    ("sector_top_companies" :> "{}")
InfoBare ==
    ("zip" :> "94-105") @@ ("ipoExpectedDate" :> D1) @@
    ("companyOfficers" :> <<Officer("Ann", "CEO"), Officer("Ann", "Chair")>>)
IndustryDoc == ("industry" :> "technology") @@ ("name" :> "Software")

NoDir == [n \in {} |-> <<>>]
InfoFile(stem, doc) == (<<stem, InfoSuffix>> :> doc)
FinFile(stem, doc)  == (<<stem, FinSuffix>> :> doc)

\* the files of AAA: any info document or none, any statements or none
DirsA ==
    {i @@ f : i \in {NoDir, InfoFile("AAA", InfoFull("AAA")), InfoFile("AAA", InfoBare)},
              f \in {NoDir} \cup {FinFile("AAA", d) : d \in FinDocs}}
\* the files of BBB: none, or the pair
DirsB ==
    {NoDir,
     InfoFile("BBB", InfoFull("BBB")) @@
        FinFile("BBB", <<<<D1ts, Statement(Items, Items, "20.0")>>>>)}
\* what extract_yahoo_financials writes for AAA: the pair and
\* AAA_industry_info.json
DirExtracted ==
    InfoFile("AAA", InfoFull("AAA")) @@
    FinFile("AAA", <<<<D1ts, Statement(Items, Items, "10.0")>>>>) @@
    InfoFile("AAA_industry", IndustryDoc)
Dirs == {a @@ b : a \in DirsA, b \in DirsB} \cup {DirExtracted}

Financials(dir) ==
    /\ ncalls < MaxCalls
    /\ \E r \in {transform_yahoo_financials(store, dir)} :
        /\ store' = r.st
        /\ last' = [op |-> "financials", dir |-> dir, raised |-> r.raised, ids |-> r.ids,
                    fin0 |-> r.fin0, fin1 |-> r.fin1, pre |-> store]
        /\ seen' = seen
        /\ ncalls' = ncalls + 1
        /\ run' = run
        /\ UNCHANGED aux

NextFin == \E dir \in Dirs : Financials(dir)

SpecFin == Init /\ [][NextFin]_vars

----------------------------------------------------------------------------
(* Direct calls of _upsert_csv on one store, with frames like the ones     *)
(* the callers hand over (their date column is already normalised).        *)

MaxBatch == 2

TsCols == {"instrument_id", "date", "price"}
BatchRows == [instrument_id : {"i1"}, date : {D1, D2}, price : {"1.5", "2.0", NaN}]
Batches ==
    {[cols |-> {}, rows |-> <<>>]} \cup
    {[cols |-> TsCols, rows |-> s] : s \in UNION {[1..n -> BatchRows] : n \in 0..MaxBatch}}

UpsertCall(path, df) ==
    \E r \in {upsert_csv(FileAt(store, path), df, KeyColumns(path))} :
        /\ store' = (path :> r.file) @@ store
        /\ last' = [op |-> "upsert", path |-> path, df |-> df,
                    raised |-> r.raised, pre |-> store]
        /\ UNCHANGED <<seen, ncalls, run, workers, rawdir, client, db>>

NextUpsert == \E df \in Batches : UpsertCall(CommTs, df)

SpecUpsert == Init /\ [][NextUpsert]_vars

\* the keys held by a file, and whether each is held once
FileKeys(file, subset) == {KeyOf(file.rows[i], subset) : i \in DOMAIN file.rows}
RowsWithKey(file, subset, k) == {i \in DOMAIN file.rows : KeyOf(file.rows[i], subset) = k}
KeyUnique(file, subset) ==
    \A i, j \in DOMAIN file.rows :
        KeyOf(file.rows[i], subset) = KeyOf(file.rows[j], subset) => i = j

\* C1: merging the batch of the last _upsert_csv call once more leaves the
\* store as it is (same rows, same count), and the store holds no key twice.
C1_IdempotentMerge ==
    (last.op = "upsert" /\ ~last.raised) =>
        /\ upsert_csv(FileAt(store, last.path), last.df, KeyColumns(last.path)).file = FileAt(store, last.path)
        /\ KeyUnique(FileAt(store, last.path), KeyColumns(last.path))

\* the last row of the batch that carries key k, as written to disk
LastOfKey(df, subset, k) ==
    LET f == ToCsv(df)
        i == CHOOSE i \in RowsWithKey(f, subset, k) : \A j \in RowsWithKey(f, subset, k) : j <= i
    IN f.rows[i]

\* C2: after _upsert_csv on an existing store, every key held by both the
\* store before and the batch is held by exactly one row afterwards, and
\* that row is the last row of the batch with that key.
C2_UpsertPrecedence ==
    (last.op = "upsert" /\ ~last.raised /\ FileAt(last.pre, last.path).exists) =>
        LET sub == KeyColumns(last.path)
            now == FileAt(store, last.path)
        IN \A k \in FileKeys(FileAt(last.pre, last.path), sub) \cap FileKeys(ToCsv(last.df), sub) :
              /\ Cardinality(RowsWithKey(now, sub, k)) = 1
              /\ \A i \in RowsWithKey(now, sub, k) : now.rows[i] = LastOfKey(last.df, sub, k)

\* an existing row (K, V1) met a batch with two rows for K, the last one (K, V2)
C2_Witness ==
    /\ last.op = "upsert" /\ ~last.raised /\ FileAt(last.pre, last.path).exists
    /\ \E i \in DOMAIN FileAt(last.pre, last.path).rows, a, b \in DOMAIN last.df.rows :
          /\ a < b
          /\ KeyOf(last.df.rows[a], KeyColumns(last.path)) = KeyOf(last.df.rows[b], KeyColumns(last.path))
          /\ KeyOf(FileAt(last.pre, last.path).rows[i], KeyColumns(last.path))
                = KeyOf(last.df.rows[b], KeyColumns(last.path))
          /\ FileAt(last.pre, last.path).rows[i]["price"] = "1.5"
          /\ last.df.rows[a]["price"] = "1.5"
          /\ last.df.rows[b]["price"] = "2.0"
          /\ \E n \in DOMAIN FileAt(store, last.path).rows :
                FileAt(store, last.path).rows[n] = ToCsv(last.df).rows[b]

----------------------------------------------------------------------------
(* Reading a call back from `last`: the domain's stores, blocks, entries.  *)

TsDomains == {"stocks", "forex", "cryptocurrencies", "commodities"}

InstOf == ("stocks" :> StockInst) @@ ("forex" :> ForexInst) @@
          ("cryptocurrencies" :> CryptoInst) @@ ("commodities" :> CommInst)
TsOf   == ("stocks" :> StockTs) @@ ("forex" :> ForexTs) @@
          ("cryptocurrencies" :> CryptoTs) @@ ("commodities" :> CommTs)
SeriesKeyOf == ("stocks" :> "Time Series (Daily)") @@ ("forex" :> "Time Series FX (Daily)") @@
               ("cryptocurrencies" :> "Time Series (Digital Currency Daily)") @@
               ("commodities" :> "data")
RequiredBlocks(dom) ==
    IF dom = "commodities" THEN {"data"} ELSE {"Meta Data", SeriesKeyOf[dom]}
ValueCols(dom) ==
    IF dom = "commodities" THEN {"price"} ELSE IF dom = "forex" THEN Ohlc ELSE Ohlcv

\* the entries of the payload's series: <<date text, column -> raw value>>
Entries(dom, raw) ==
    LET s == Get(raw, SeriesKeyOf[dom], <<>>)
    IN IF dom = "commodities"
       THEN [i \in DOMAIN s |-> <<Get(s[i], "date", None), [c \in {"price"} |-> Get(s[i], "value", None)]>>]
       ELSE [i \in DOMAIN s |-> <<s[i][1], [c \in ValueCols(dom) |-> Get(s[i][2], RawKey[c], None)]>>]

\* the discriminators of the payload, in the documented order, None if absent
Discriminators(dom, raw) ==
    LET m == Get(raw, "Meta Data", <<>>)
        b == Get(raw, "Realtime Currency Exchange Rate", <<>>)
    IN CASE dom = "stocks" -> <<Get(m, "2. Symbol", None)>>
         [] dom = "forex" -> <<Get(m, "2. From Symbol", None), Get(m, "3. To Symbol", None)>>
         [] dom = "cryptocurrencies" ->
               <<Or(Get(m, "2. Digital Currency Code", None), Get(m, "3. Digital Currency Name", None)),
                 Get(m, "4. Market Code", None)>>
         [] dom = "commodities" -> <<Get(raw, "name", None)>>
         [] dom = "exchange_rates" ->
               <<Get(b, "1. From_Currency Code", None), Get(b, "3. To_Currency Code", None)>>

DataTypeOf == ("stocks" :> "stock") @@ ("forex" :> "forex") @@
              ("cryptocurrencies" :> "cryptocurrency") @@ ("commodities" :> "commodity") @@
              ("exchange_rates" :> "exchange_rate")

\* the id the identity contract gives a payload: an absent discriminator
\* counts as the empty string (forex joins its two symbols with "_")
ContractId(dom, raw) ==
    LET d == [i \in DOMAIN Discriminators(dom, raw) |-> Or(Discriminators(dom, raw)[i], "")]
    IN Md5Hex(Source \o "|" \o DataTypeOf[dom] \o "|" \o
              (IF dom = "forex" THEN d[1] \o "_" \o d[2] ELSE JoinBar(d)))

IsNumeric(v) == v \in DOMAIN FloatOf
IsCall == last.op = "transform"
BlocksPresent == \A k \in RequiredBlocks(last.dom) : k \in DOMAIN last.raw
AllDatesParse == \A i \in DOMAIN Entries(last.dom, last.raw) :
                    Entries(last.dom, last.raw)[i][1] \in DOMAIN ParsedDay

\* the timeseries row an entry should have become: its normalised date and
\* its coerced values, as written to disk
RowWritten(file, id, entry) ==
    \E n \in DOMAIN file.rows :
        /\ file.rows[n]["instrument_id"] = id
        /\ file.rows[n]["date"] = NormDate(entry[1])
        /\ \A c \in DOMAIN entry[2] :
              file.rows[n][c] = (IF IsNumeric(entry[2][c]) THEN FloatOf[entry[2][c]] ELSE "")

\* C3: no store holds two rows with the same declared key.
C3_KeyUniqueness ==
    \A p \in DOMAIN store : KeyUnique(store[p], KeyColumns(p))

C5_BadDateDropsRow ==
    (/\ IsCall /\ last.dom \in TsDomains /\ BlocksPresent
     /\ None \notin Range(Discriminators(last.dom, last.raw))
     /\ \E i \in DOMAIN Entries(last.dom, last.raw) :
           ~DateParsable(Entries(last.dom, last.raw)[i][1])
     /\ \E i \in DOMAIN Entries(last.dom, last.raw) :
           Entries(last.dom, last.raw)[i][1] \in DOMAIN ParsedDay)
    => /\ ~last.raised
       /\ \A i \in DOMAIN Entries(last.dom, last.raw) :
             LET e == Entries(last.dom, last.raw)[i]
                 f == FileAt(store, TsOf[last.dom])
             IN /\ (e[1] \in DOMAIN ParsedDay /\ \A c \in DOMAIN e[2] : IsNumeric(e[2][c]))
                      => \E id \in last.ids : RowWritten(f, id, e)
                /\ ~DateParsable(e[1])
                      => \A n \in DOMAIN f.rows : f.rows[n]["date"] \notin {e[1], ""}

\* C6: a stock, forex or crypto entry with a numeric field that fails
\* coercion (or is absent) and another that is valid is written, the failed
\* fields null and the valid ones kept.
C6_CoercionDegradesField ==
    (/\ IsCall /\ last.dom \in TsDomains \ {"commodities"} /\ ~last.raised)
    => \A i \in DOMAIN Entries(last.dom, last.raw) :
          LET e == Entries(last.dom, last.raw)[i]
          IN (/\ \E c \in DOMAIN e[2] : ~IsNumeric(e[2][c])
              /\ \E c \in DOMAIN e[2] : IsNumeric(e[2][c]))
             => \E id \in last.ids : RowWritten(FileAt(store, TsOf[last.dom]), id, e)

\* C7: a time-series payload that lacks a required block makes the call
\* raise, and no store is written.
C7_MissingBlockFails ==
    (IsCall /\ last.dom \in TsDomains /\ ~BlocksPresent)
    => (last.raised /\ store = last.pre)

\* C9: with the required blocks present and a discriminator absent, the
\* call does not fail on it and the id is the one of the basis with the
\* empty string in its place.
C9_MissingDiscriminatorIsEmpty ==
    (/\ IsCall /\ AllDatesParse
     /\ last.dom \in TsDomains => BlocksPresent
     /\ last.dom = "exchange_rates" => "Realtime Currency Exchange Rate" \in DOMAIN last.raw
     /\ None \in Range(Discriminators(last.dom, last.raw))
     /\ \A p \in DOMAIN last.pre : last.pre[p].cols # {})
    => (~last.raised /\ last.ids = {ContractId(last.dom, last.raw)})

\* C10: no timeseries store holds a row whose value-bearing fields are all
\* null.
C10_NullRowsDropped ==
    \A dom \in TsDomains :
        \A n \in DOMAIN FileAt(store, TsOf[dom]).rows :
            \E c \in ValueCols(dom) : FileAt(store, TsOf[dom]).rows[n][c] # ""

\* the line-item columns of a statement frame, and the share of them a row
\* misses
ItemCols(df) == df.cols \ IdentityCols
MissesOver60(df, row) ==
    5 * Cardinality({c \in ItemCols(df) : row[c] = NaN}) > 3 * Cardinality(ItemCols(df))

\* C8: a statement row that misses more than 60% of its line items is not
\* among the rows the aggregator hands to _upsert_csv (dropped, not
\* mean-filled).
C8_SixtyPercentThreshold ==
    (last.op = "financials" /\ ~last.raised) =>
        \A i \in DOMAIN last.fin0.rows :
            MissesOver60(last.fin0, last.fin0.rows[i]) =>
                \A j \in DOMAIN last.fin1.rows :
                    \/ last.fin1.rows[j]["instrument_id"] # last.fin0.rows[i]["instrument_id"]
                    \/ last.fin1.rows[j]["date"] # NormDate(last.fin0.rows[i]["date"])

----------------------------------------------------------------------------
(* The commodity placeholder.                                              *)

IsCommodityCall == IsCall /\ last.dom = "commodities"
\* the raw value of each data point of the last commodity payload
PointValues == [i \in DOMAIN Get(last.raw, "data", <<>>) |-> Get(last.raw["data"][i], "value", None)]

\* C11 (as stated): a data point with value "." gets a null price and no
\* warning is logged for "."; every other value that is not numeric is
\* logged by _to_float.
C11_EveryOtherValueLogged ==
    IsCommodityCall =>
        \A i \in DOMAIN PointValues :
            /\ PointValues[i] = "." => (last.ts[i]["price"] = None /\ "." \notin last.warned)
            /\ (PointValues[i] # "." /\ ~IsNumeric(PointValues[i])) => PointValues[i] \in last.warned

\* C11 (amended): a data point with value "." gets a null price and no
\* warning is logged for "."; every other value that is present and not
\* numeric is logged by _to_float; a null or absent value gets a null price
\* and no warning.
C11_PlaceholderNotCoerced ==
    IsCommodityCall =>
        \A i \in DOMAIN PointValues :
            /\ PointValues[i] = "." => (last.ts[i]["price"] = None /\ "." \notin last.warned)
            /\ (PointValues[i] \notin {".", None} /\ ~IsNumeric(PointValues[i]))
                  => (last.ts[i]["price"] = None /\ PointValues[i] \in last.warned)
            /\ PointValues[i] = None => (last.ts[i]["price"] = None /\ None \notin last.warned)

\* a payload with a "." point, an "abc" point and a point without a value
C11_Witness ==
    /\ IsCommodityCall
    /\ {".", "abc", None} \subseteq Range(PointValues)
    /\ last.warned = {"abc"}

----------------------------------------------------------------------------
(* Partial pairs in the financials directory.                              *)

IsFinCall == last.op = "financials"

\* the stems that have one file of the pair only
InfoOnlyStems(dir) == GlobStems(dir, InfoSuffix) \ GlobStems(dir, FinSuffix)
FinOnlyStems(dir)  == GlobStems(dir, FinSuffix) \ GlobStems(dir, InfoSuffix)

\* every statement date of the directory parses
DirDatesParse(dir) ==
    \A n \in DOMAIN dir : n[2] = FinSuffix =>
        \A i \in DOMAIN dir[n] : dir[n][i][1] \in DOMAIN ParsedDay

\* the rows of a file that carry an instrument_id, in file order
RowsOfId(file, id) ==
    KeepIdx(file.rows, {i \in DOMAIN file.rows : file.rows[i]["instrument_id"] = id}, 1)

\* the officers embedded in the info document of a stem
EmbeddedOfficers(dir, s) == Get(dir[<<s, InfoSuffix>>], "companyOfficers", <<>>)

C13_StatementsOnly ==
    (IsFinCall /\ DirDatesParse(last.dir)) =>
        \A s \in FinOnlyStems(last.dir) :
            LET id  == generate_hash_id("Yahoo Financials", "financials", <<s>>)
                doc == last.dir[<<s, FinSuffix>>]
                fin == RowsOfId(FileAt(store, FinCsv), id)
            IN /\ ~last.raised
               /\ \A k \in DOMAIN doc :
                     (\A c \in DOMAIN doc[k][2] : doc[k][2][c] # None)
                        => \E n \in DOMAIN fin : fin[n]["date"] = NormDate(doc[k][1])
               /\ RowsOfId(FileAt(store, InfoCsv), id) = RowsOfId(FileAt(last.pre, InfoCsv), id)
               /\ RowsOfId(FileAt(store, OfficersCsv), id)
                     = RowsOfId(FileAt(last.pre, OfficersCsv), id)

----------------------------------------------------------------------------
(* The mean fill of the statement frame.                                   *)

\* the rows of the frame before the threshold that are in the frame handed
\* to _upsert_csv, by (instrument_id, date)
Survivors ==
    KeepIdx(last.fin0.rows,
            {i \in DOMAIN last.fin0.rows :
                \E j \in DOMAIN last.fin1.rows :
                    /\ last.fin1.rows[j]["instrument_id"] = last.fin0.rows[i]["instrument_id"]
                    /\ last.fin1.rows[j]["date"] = NormDate(last.fin0.rows[i]["date"])},
            1)

\* the numbers a column holds in a sequence of rows
NumbersOf(rows, c) ==
    LET present == KeepIdx(rows, {i \in DOMAIN rows : rows[i][c] # NaN}, 1)
    IN [i \in DOMAIN present |-> NumOf[present[i][c]]]

\* C14: in the frame the aggregator hands to _upsert_csv, a line-item cell
\* that was null in a surviving statement row holds the mean of the column's
\* non-null values over the surviving rows of the batch, all symbols pooled
\* (it stays null when no surviving row has a value); a cell that was not
\* null is unchanged; the rows are stored with these values.  Neither the
\* rows in financials.csv before the call nor the dropped rows enter the mean.
C14_BatchLocalMeanFill ==
    (IsFinCall /\ ~last.raised /\ last.fin0.rows # <<>>) =>
        /\ Len(Survivors) = Len(last.fin1.rows)
        /\ \A j \in DOMAIN last.fin1.rows : \A c \in ItemCols(last.fin0) :
              /\ last.fin1.rows[j][c] =
                    (IF Survivors[j][c] # NaN THEN Survivors[j][c]
                     ELSE IF NumbersOf(Survivors, c) = <<>> THEN NaN
                     ELSE MeanText(NumbersOf(Survivors, c)))
              /\ \E n \in DOMAIN FileAt(store, FinCsv).rows :
                    /\ FileAt(store, FinCsv).rows[n]["instrument_id"]
                          = last.fin1.rows[j]["instrument_id"]
                    /\ FileAt(store, FinCsv).rows[n]["date"] = last.fin1.rows[j]["date"]
                    /\ FileAt(store, FinCsv).rows[n][c] = ToCsvCell(last.fin1.rows[j][c])

\* a batch of two symbols over a store that holds other values: a row of
\* AAA with "Total Revenue" 10.0 is dropped, a surviving row of AAA misses
\* "Total Revenue" and gets 20.0, the mean over the rows of BBB
C14_Witness ==
    /\ IsFinCall /\ ~last.raised
    /\ Len(last.fin0.rows) = 3 /\ Len(last.fin1.rows) = 2
    /\ \E i \in DOMAIN last.fin0.rows :
          /\ last.fin0.rows[i]["symbol"] = "AAA"
          /\ last.fin0.rows[i]["Total Revenue"] = "10.0"
          /\ \A j \in DOMAIN last.fin1.rows :
                last.fin1.rows[j]["date"] # NormDate(last.fin0.rows[i]["date"])
                    \/ last.fin1.rows[j]["symbol"] # "AAA"
    /\ \E i \in DOMAIN Survivors, j \in DOMAIN last.fin1.rows :
          /\ Survivors[i]["symbol"] = "AAA" /\ Survivors[i]["Total Revenue"] = NaN
          /\ last.fin1.rows[j]["symbol"] = "AAA" /\ last.fin1.rows[j]["Total Revenue"] = "20.0"
    /\ \E n \in DOMAIN FileAt(last.pre, FinCsv).rows :
          FileAt(last.pre, FinCsv).rows[n]["Total Revenue"] = "10.0"

----------------------------------------------------------------------------
(* The exchange-rate block.                                                *)

\* C15: an exchange-rate payload without the "Realtime Currency Exchange
\* Rate" block makes transform_exchange_rate raise, no id is computed and
\* every store, exchange_rates.csv included, is as it was before the call
\* (absent if it was absent).
C15_MissingRateBlockRaises ==
    (/\ IsCall /\ last.dom = "exchange_rates"
     /\ "Realtime Currency Exchange Rate" \notin DOMAIN last.raw)
    => (last.raised /\ last.ids = {} /\ store = last.pre)

\* a payload without the block, met by a store that holds a rate
C15_Witness ==
    /\ IsCall /\ last.dom = "exchange_rates"
    /\ "Realtime Currency Exchange Rate" \notin DOMAIN last.raw
    /\ last.raised
    /\ Len(FileAt(store, RatesCsv).rows) = 1

----------------------------------------------------------------------------
(* One file, one instrument, n points.                                     *)

\* the last call transformed a commodity or crypto payload over absent
\* stores, and the payload's entries have dates that parse, pairwise
\* distinct, and numeric values throughout
IsCleanFirstFile ==
    /\ IsCall /\ last.dom \in {"commodities", "cryptocurrencies"}
    /\ InstOf[last.dom] \notin DOMAIN last.pre
    /\ TsOf[last.dom] \notin DOMAIN last.pre
    /\ \A i \in DOMAIN Entries(last.dom, last.raw) :
          LET e == Entries(last.dom, last.raw)[i]
          IN /\ e[1] \in DOMAIN ParsedDay
             /\ \A c \in DOMAIN e[2] : IsNumeric(e[2][c])
             /\ \A j \in DOMAIN Entries(last.dom, last.raw) :
                   Entries(last.dom, last.raw)[j][1] = e[1] => j = i

\* C16: a commodity or crypto file with n entries of pairwise distinct
\* dates and numeric values, transformed over absent stores, leaves
\* instruments.csv with exactly one row and timeseries.csv with exactly n
\* rows, the i-th carrying the instrument's id, the normalised date of the
\* i-th entry and its parsed values.
C16_FanOut ==
    IsCleanFirstFile =>
        LET es   == Entries(last.dom, last.raw)
            inst == FileAt(store, InstOf[last.dom])
            ts   == FileAt(store, TsOf[last.dom])
        IN /\ ~last.raised
           /\ inst.exists /\ Len(inst.rows) = 1
           /\ last.ids = {inst.rows[1]["instrument_id"]}
           /\ ts.exists /\ Len(ts.rows) = Len(es)
           /\ \A i \in DOMAIN es :
                 /\ ts.rows[i]["instrument_id"] = inst.rows[1]["instrument_id"]
                 /\ ts.rows[i]["date"] = ParsedDay[es[i][1]]
                 /\ \A c \in DOMAIN es[i][2] : ts.rows[i][c] = FloatOf[es[i][2][c]]

\* a payload of two entries, stored in the order of the payload
C16_Witness ==
    /\ IsCleanFirstFile /\ ~last.raised
    /\ Len(FileAt(store, TsOf[last.dom]).rows) = 2
    /\ FileAt(store, TsOf[last.dom]).rows[1]["date"] = D1
    /\ FileAt(store, TsOf[last.dom]).rows[2]["date"] = D2

----------------------------------------------------------------------------
(* Instruments and their points.                                           *)

\* the instrument ids a file holds
IdsIn(file) == {file.rows[i]["instrument_id"] : i \in DOMAIN file.rows}

\* C17: in every time-series domain each instrument_id of timeseries.csv is
\* an instrument_id of instruments.csv, whether the calls so far succeeded
\* or failed; the ts rows a transformer builds from one payload all carry
\* the one id it computed for the payload, and that id is in instruments.csv
\* once the call has succeeded.
C17_ReferentialIntegrity ==
    /\ \A dom \in TsDomains :
          IdsIn(FileAt(store, TsOf[dom])) \subseteq IdsIn(FileAt(store, InstOf[dom]))
    /\ (IsCall /\ last.dom \in TsDomains) =>
          /\ Cardinality(last.ids) <= 1
          /\ \A i \in DOMAIN last.ts : last.ts[i]["instrument_id"] \in last.ids
          /\ ~last.raised => last.ids \subseteq IdsIn(FileAt(store, InstOf[last.dom]))

\* two instruments of one domain, each with a point in timeseries.csv
C17_Witness ==
    /\ IsCall /\ last.dom \in TsDomains /\ ~last.raised
    /\ Cardinality(IdsIn(FileAt(store, TsOf[last.dom]))) = 2
    /\ Len(last.ts) > 0

----------------------------------------------------------------------------
(* From the extracted files to information.csv.                            *)

\* the symbols extract_yahoo_financials was given for DirExtracted
ExtractedSymbols == {"AAA"}

\* C18: the aggregator run over the files extract_yahoo_financials wrote
\* for a set of symbols, with information.csv absent before, leaves
\* information.csv with exactly one row for each of the symbols and no row
\* for anything else.
C18_OneInfoRowPerSymbol ==
    (IsFinCall /\ last.dir = DirExtracted /\ InfoCsv \notin DOMAIN last.pre) =>
        LET info == FileAt(store, InfoCsv)
        IN /\ ~last.raised
           /\ \A sym \in ExtractedSymbols :
                 Cardinality({i \in DOMAIN info.rows : info.rows[i]["symbol"] = sym}) = 1
           /\ \A i \in DOMAIN info.rows : info.rows[i]["symbol"] \in ExtractedSymbols

----------------------------------------------------------------------------
(* The orchestrator, Transform.transform: one step per entry of the raw    *)
(* root and per file of a folder, in os.listdir order.  A root is a        *)
(* sequence of entries; a folder holds a sequence of files, a file a name  *)
(* <<stem, extension>>, whether load_json can read it, and its document;   *)
(* the yahoo_financials folder holds the directory the aggregator reads.   *)

MaxFolders == 2

Yahoo == "yahoo_financials"
KnownFolders == {"commodities", "cryptocurrencies", "exchange_rates", "forex", "stocks"}

File(stem, doc)     == [name |-> <<stem, ".json">>, readable |-> TRUE, doc |-> doc]
Garbage(stem, ext)  == [name |-> <<stem, ext>>, readable |-> FALSE, doc |-> <<>>]
Folder(name, files) == [name |-> name, is_dir |-> TRUE, files |-> files, dir |-> NoDir]
YahooFolder(dir)    == [name |-> Yahoo, is_dir |-> TRUE, files |-> <<>>, dir |-> dir]
PlainFile(name)     == [name |-> name, is_dir |-> FALSE, files |-> <<>>, dir |-> NoDir]

\* file_name.endswith(".json")
EndsWithJson(name) == name[2] = ".json"

Aluminum(series) == ("name" :> "Aluminum") @@ ("unit" :> "USD") @@ ("data" :> series)
StockOf(series)  == ("Meta Data" :> StockMeta("IBM")) @@ ("Time Series (Daily)" :> series)

\* the entries a raw root is made of
RootEntries ==
    {Folder("commodities", <<File("ALUMINUM", Aluminum(OnePoint))>>),
     Folder("commodities",
            <<File("ALUMINUM", Aluminum(OnePoint)),
              File("COPPER", Aluminum(<<CommPoint(DBad, "2")>>)),
              File("WHEAT", Aluminum(<<CommPoint(D2, "2")>>))>>),
     Folder("commodities", <<Garbage("ALUMINUM", ".json")>>),
     Folder("commodities",
            <<File("ALUMINUM", Aluminum(OnePoint)),
              File("ALUMINUM_revised", Aluminum(<<CommPoint(D1, "2")>>))>>),
     Folder("stocks", <<File("IBM", StockOf(OneEntry))>>),
     Folder("stocks", <<File("IBM", ("Meta Data" :> StockMeta("IBM")))>>),
     Folder("cryptocurrencies",
            <<Garbage("notes", ".txt"),
              File("BTC", ("Meta Data" :> CryptoMeta) @@
                          ("Time Series (Digital Currency Daily)" :> OneEntry))>>),
     Folder("forex", <<File("EUR_USD", ("Meta Data" :> ForexMeta) @@
                                       ("Time Series FX (Daily)" :> OneEntry))>>),
     Folder("exchange_rates",
            <<File("EUR_USD", ("Realtime Currency Exchange Rate" :> RateBlock("EUR", "USD", "2")))>>),
     Folder("exchange_rates", <<File("EUR_USD", ("Information" :> "rate limit"))>>),
     YahooFolder(DirExtracted),
     YahooFolder(FinFile("AAA", <<<<DBad, Statement(Items, Items, "10.0")>>>>)),
     Folder("misc", <<File("ALUMINUM", Aluminum(OnePoint))>>),
     Folder("misc", <<Garbage("broken", ".json")>>),
     Folder("misc", <<Garbage("notes", ".txt")>>),
     Folder("misc", <<>>),
     PlainFile("README.md")}

\* os.listdir(raw_data_dir): entries with pairwise distinct names
Roots ==
    {r \in UNION {[1..n -> RootEntries] : n \in 1..MaxFolders} :
        \A i, j \in DOMAIN r : r[i].name = r[j].name => i = j}

\* the match statement of Transform.transform; an unknown folder logs a
\* warning and transforms nothing
transform_file(st, folder, raw) ==
    CASE folder = "commodities"      -> transform_commodity(st, raw)
      [] folder = "cryptocurrencies" -> transform_crypto(st, raw)
      [] folder = "exchange_rates"   -> transform_exchange_rate(st, raw)
      [] folder = "forex"            -> transform_forex(st, raw)
      [] folder = "stocks"           -> transform_stock(st, raw)
      [] OTHER -> [raised |-> FALSE, st |-> st, ids |-> {}, warned |-> {}, ts |-> <<>>]

\* bug variant: the error is logged and the traversal goes on
OnFailureContinue(r) == [r EXCEPT !.error = TRUE]

\* `raise e` in the except clauses: the error leaves transform()
OnFailure(r) == [r EXCEPT !.error = TRUE, !.status = "raised"]

Running  == run.status = "running"
AtFolder == Running /\ run.f <= Len(run.root)
Cur      == run.root[run.f]
InFiles  == AtFolder /\ Cur.is_dir /\ Cur.name # Yahoo
AtFile   == InFiles /\ run.k <= Len(Cur.files)
CurFile  == Cur.files[run.k]

NextEntry == [run EXCEPT !.f = run.f + 1, !.k = 1]
NextFile  == [run EXCEPT !.k = run.k + 1]
Logged(r) == [r EXCEPT !.log = Append(run.log, <<run.f, run.k>>)]

\* transform() is called on a raw root that exists
StartRun(root) ==
    /\ run.status = "idle" /\ run.root_exists
    /\ run' = [run EXCEPT !.status = "running", !.root = root]
    /\ last' = [op |-> "transform()", root_exists |-> TRUE]
    /\ UNCHANGED <<store, seen, ncalls, workers, rawdir, client, db>>

\* the raw root is removed after the Transform was constructed
RemoveRoot ==
    /\ run.status = "idle" /\ run.root_exists
    /\ run' = [run EXCEPT !.root_exists = FALSE]
    /\ UNCHANGED <<store, last, seen, ncalls, workers, rawdir, client, db>>

\* transform() is called and `not self.raw_data_dir.exists()`: the error is
\* logged and transform() returns
AbsentRootReturns ==
    /\ run.status = "idle" /\ ~run.root_exists
    /\ run' = [run EXCEPT !.status = "returned"]
    /\ last' = [op |-> "transform()", root_exists |-> FALSE]
    /\ UNCHANGED <<store, seen, ncalls, workers, rawdir, client, db>>

\* `if not folder_path.is_dir(): continue`
SkipEntry ==
    /\ AtFolder /\ ~Cur.is_dir
    /\ run' = NextEntry
    /\ UNCHANGED <<store, last, seen, ncalls, workers, rawdir, client, db>>

\* the yahoo_financials folder: one aggregator call for the directory
FinancialsFolder ==
    /\ AtFolder /\ Cur.is_dir /\ Cur.name = Yahoo
    /\ \E r \in {transform_yahoo_financials(store, Cur.dir)} :
          /\ store' = r.st
          /\ last' = [op |-> "financials", dir |-> Cur.dir, raised |-> r.raised,
                      ids |-> r.ids, fin0 |-> r.fin0, fin1 |-> r.fin1, pre |-> store]
          /\ run' = IF r.raised THEN OnFailure(Logged(NextEntry)) ELSE Logged(NextEntry)
    /\ UNCHANGED <<seen, ncalls, workers, rawdir, client, db>>

\* `if not file_name.endswith(".json"): continue`
SkipFile ==
    /\ AtFile /\ ~EndsWithJson(CurFile.name)
    /\ run' = NextFile
    /\ UNCHANGED <<store, last, seen, ncalls, workers, rawdir, client, db>>

\* load_json raises on a file that is not readable JSON, inside the try
LoadFails ==
    /\ AtFile /\ EndsWithJson(CurFile.name) /\ ~CurFile.readable
    /\ run' = OnFailure(Logged(NextFile))
    /\ UNCHANGED <<store, last, seen, ncalls, workers, rawdir, client, db>>

\* load_json, then the transformer the folder name selects
TransformFile ==
    /\ AtFile /\ EndsWithJson(CurFile.name) /\ CurFile.readable
    /\ \E r \in {transform_file(store, Cur.name, CurFile.doc)} :
          /\ store' = r.st
          /\ last' = [op |-> "transform", dom |-> Cur.name, raw |-> CurFile.doc,
                      raised |-> r.raised, ids |-> r.ids, warned |-> r.warned,
                      ts |-> r.ts, pre |-> store]
          /\ run' = IF r.raised THEN OnFailure(Logged(NextFile)) ELSE Logged(NextFile)
    /\ UNCHANGED <<seen, ncalls, workers, rawdir, client, db>>

\* the files of the folder are exhausted
LeaveFolder ==
    /\ InFiles /\ run.k > Len(Cur.files)
    /\ run' = NextEntry
    /\ UNCHANGED <<store, last, seen, ncalls, workers, rawdir, client, db>>

\* the entries are exhausted: transform() returns
FinishRun ==
    /\ Running /\ run.f > Len(run.root)
    /\ run' = [run EXCEPT !.status = "returned"]
    /\ UNCHANGED <<store, last, seen, ncalls, workers, rawdir, client, db>>

NextRun ==
    \/ \E root \in Roots : StartRun(root)
    \/ RemoveRoot
    \/ AbsentRootReturns
    \/ SkipEntry
    \/ FinancialsFolder
    \/ SkipFile
    \/ LoadFails
    \/ TransformFile
    \/ LeaveFolder
    \/ FinishRun

SpecRun == Init /\ [][NextRun]_vars

\* the run is inside a folder whose name selects no transformer
InUnknownFolder == InFiles /\ Cur.name \notin KnownFolders

\* C19: once a call has failed on a file, transform() has raised: the run
\* takes no further step, so no later file is transformed and no store is
\* written; and the failing step leaves every store that existed with all
\* the keys it held.
C19_FailFast ==
    [][/\ run.error => (store' = store /\ run' = run /\ run.status = "raised")
       /\ (~run.error /\ run'.error) =>
             /\ run'.status = "raised"
             /\ \A p \in DOMAIN store :
                   /\ p \in DOMAIN store'
                   /\ FileKeys(store[p], KeyColumns(p)) \subseteq FileKeys(store'[p], KeyColumns(p))]_vars

\* a run that raised on the second file of a folder: the first file is in
\* the store, the third was never reached
C19_Witness ==
    /\ run.status = "raised" /\ run.error
    /\ run.log = <<<<1, 1>>, <<1, 2>>>>
    /\ Len(run.root[1].files) = 3
    /\ Len(FileAt(store, CommTs).rows) = 1

\* C20: while the run is in a folder whose name is no known domain, every
\* step leaves the stores as they are and the run running: no file of the
\* folder, whatever it holds, makes transform() raise, and the traversal
\* goes on.
C20_UnknownDomainNonFatal ==
    [][InUnknownFolder => (store' = store /\ run'.status = "running" /\ ~run'.error)]_vars

----------------------------------------------------------------------------
(* Construction of a Transform, then its run.                              *)

InitUnbuilt ==
    /\ store = NoFiles
    /\ last = [op |-> "init"]
    /\ seen = {}
    /\ ncalls = 0
    /\ run = [status |-> "unbuilt", root_exists |-> TRUE, root |-> <<>>, f |-> 1, k |-> 1,
              error |-> FALSE, log |-> <<>>]
    /\ AuxInit

\* Transform.__init__: raises ValueError when raw_data_dir is no directory
Construct(exists) ==
    /\ run.status = "unbuilt"
    /\ run' = IF exists THEN [run EXCEPT !.status = "idle"]
               ELSE [run EXCEPT !.status = "raised", !.error = TRUE, !.root_exists = FALSE]
    /\ last' = [op |-> "construct", root_exists |-> exists]
    /\ UNCHANGED <<store, seen, ncalls, workers, rawdir, client, db>>

NextLife ==
    \/ \E exists \in BOOLEAN : Construct(exists)
    \/ NextRun

SpecLife == InitUnbuilt /\ [][NextLife]_vars

\* C21: when the raw root does not exist at the construction of the
\* Transform or at the call of transform(), the caller gets an error: the
\* construction, or the run, ends raised and never returned.
C21_AbsentRootSignalled ==
    (last.op \in {"construct", "transform()"} /\ ~last.root_exists) =>
        (run.status = "raised" /\ run.error)

----------------------------------------------------------------------------
(* Two processes in _upsert_csv on one store path. A call reads the file  *)
(* (path.exists(), read_csv) and later writes the merged frame (to_csv);  *)
(* nothing in _upsert_csv or in the DAG holds a lock between the two.     *)

RaceBatches == {b \in Batches : Len(b.rows) <= 1}
Procs == DOMAIN IdleWorkers
Written == {p \in Procs : workers[p].pc = "done"}

\* a serialized call that fills the store before the two processes start
Seed(df) ==
    /\ \A p \in Procs : workers[p].pc = "idle"
    /\ CommTs \notin DOMAIN store
    /\ UpsertCall(CommTs, df)

\* lines 88-96: the process looks at the file and builds the merged frame
UpsertRead(p, df) ==
    /\ workers[p].pc = "idle"
    /\ workers' = [workers EXCEPT ![p] =
            [pc |-> IF upsert_csv(FileAt(store, CommTs), df, KeyColumns(CommTs)).raised
                    THEN "raised" ELSE "read",
             df |-> df, base |-> FileAt(store, CommTs),
             behind |-> Cardinality(Written), order |-> 0]]
    /\ UNCHANGED <<store, last, seen, ncalls, run, rawdir, client, db>>

\* lines 97-99: the process writes the frame it built from what it read
UpsertWrite(p) ==
    /\ workers[p].pc = "read"
    /\ store' = (CommTs :> upsert_csv(workers[p].base, workers[p].df, KeyColumns(CommTs)).file)
                    @@ store
    /\ workers' = [workers EXCEPT ![p].pc = "done", ![p].order = Cardinality(Written) + 1]
    /\ UNCHANGED <<last, seen, ncalls, run, rawdir, client, db>>

NextRace ==
    \/ \E df \in RaceBatches : Seed(df)
    \/ \E p \in Procs, df \in RaceBatches : UpsertRead(p, df)
    \/ \E p \in Procs : UpsertWrite(p)

SpecRace == Init /\ [][NextRace]_vars

BothWritten == Written = Procs
Interleaved == \A p \in Procs : workers[p].behind = 0
BatchKeys(p) == FileKeys(ToCsv(workers[p].df), KeyColumns(CommTs))
LastWriter == CHOOSE p \in Procs : workers[p].order = Cardinality(Procs)

\* C22: once both invocations have written: if both read the store before
\* either wrote, the store is the merge of what the last writer read with
\* the last writer's batch alone (the other batch contributes nothing);
\* if one ran after the other, the store holds the keys of both batches.
C22_LostUpdate ==
    BothWritten =>
        IF Interleaved
        THEN /\ workers[1].base = workers[2].base
             /\ FileAt(store, CommTs) =
                    upsert_csv(workers[LastWriter].base, workers[LastWriter].df,
                               KeyColumns(CommTs)).file
        ELSE \A p \in Procs : BatchKeys(p) \subseteq FileKeys(FileAt(store, CommTs), KeyColumns(CommTs))

\* both read first, and a key of the first writer's batch is gone
C22_Witness ==
    /\ BothWritten
    /\ Interleaved
    /\ \E p \in Procs :
          BatchKeys(p) \ FileKeys(FileAt(store, CommTs), KeyColumns(CommTs)) # {}

----------------------------------------------------------------------------
(* Extraction: each method asks the client for every target and saves the *)
(* answer under <raw root>/<domain>/. Extract.__init__ creates the raw    *)
(* root only; save_json opens the file for writing and creates no         *)
(* directory, and a method logs and swallows what a target raises.        *)

MaxExtracts == 2

\* the targets of tests/test_extract.py, and one more commodity
commodities == {"ALUMINUM", "WTI"}
currency_pairs == {<<"USD", "EUR">>}
stock_symbols == {"AAPL"}
crypto_pairs == {<<"BTC", "USD">>}
forex_pairs == {<<"EUR", "USD">>}

Subdirs == {"commodities", "exchange_rates", "stocks", "cryptocurrencies", "forex"}

\* the file names the methods build
CommodityFile(c) == c \o ".json"
ExchangeRateFile(t) == t[1] \o "_" \o t[2] \o "_exchange_rate.json"
StockFile(sym) == sym \o "_stock_data.json"
CryptoFile(t) == t[1] \o "_" \o t[2] \o "_crypto_data.json"
ForexFile(t) == t[1] \o "_" \o t[2] \o "_forex_data.json"

\* save_json(path, data): open(path, 'w') raises FileNotFoundError when the
\* parent directory does not exist
save_json_raises(dir) == dir \notin rawdir.dirs

\* one extraction method over its targets; `failed` are the file names of
\* the targets for which the client raised. Every raise is logged and the
\* loop goes on.
ExtractInto(method, dir, names, failed) ==
    /\ rawdir.calls < MaxExtracts
    /\ rawdir' = [rawdir EXCEPT
            !.files = @ \cup (IF save_json_raises(dir) THEN {}
                              ELSE {dir \o "/" \o n : n \in names \ failed}),
            !.done = @ \cup {[method |-> method, ok |-> failed = {}]},
            !.calls = @ + 1]
    /\ UNCHANGED <<store, last, seen, ncalls, run, workers, client, db>>

commodities_extract(failed) ==
    ExtractInto("commodities_extract", "commodities",
                {CommodityFile(c) : c \in commodities}, failed)
exchange_rate_extract(failed) ==
    ExtractInto("exchange_rate_extract", "exchange_rates",
                {ExchangeRateFile(t) : t \in currency_pairs}, failed)
extract_stock(failed) ==
    ExtractInto("extract_stock", "stocks", {StockFile(sym) : sym \in stock_symbols}, failed)
extract_daily_crypto(failed) ==
    ExtractInto("extract_daily_crypto", "cryptocurrencies",
                {CryptoFile(t) : t \in crypto_pairs}, failed)
extract_forex(failed) ==
    ExtractInto("extract_forex", "forex", {ForexFile(t) : t \in forex_pairs}, failed)

\* somebody else creates a domain subdirectory under the raw root
MakeDir(dir) ==
    /\ dir \notin rawdir.dirs
    /\ rawdir' = [rawdir EXCEPT !.dirs = @ \cup {dir}]
    /\ UNCHANGED <<store, last, seen, ncalls, run, workers, client, db>>

NextExtract ==
    \/ \E failed \in SUBSET {CommodityFile(c) : c \in commodities} : commodities_extract(failed)
    \/ \E failed \in SUBSET {ExchangeRateFile(t) : t \in currency_pairs} : exchange_rate_extract(failed)
    \/ \E failed \in SUBSET {StockFile(sym) : sym \in stock_symbols} : extract_stock(failed)
    \/ \E failed \in SUBSET {CryptoFile(t) : t \in crypto_pairs} : extract_daily_crypto(failed)
    \/ \E failed \in SUBSET {ForexFile(t) : t \in forex_pairs} : extract_forex(failed)
    \/ \E dir \in Subdirs : MakeDir(dir)

SpecExtract == Init /\ [][NextExtract]_vars

\* the files the specification names for a method's targets, under the raw root
ExpectedFiles(method) ==
    CASE method = "commodities_extract" ->
            {"commodities/" \o c \o ".json" : c \in commodities}
      [] method = "exchange_rate_extract" ->
            {"exchange_rates/" \o t[1] \o "_" \o t[2] \o "_exchange_rate.json" : t \in currency_pairs}
      [] method = "extract_stock" ->
            {"stocks/" \o sym \o "_stock_data.json" : sym \in stock_symbols}
      [] method = "extract_daily_crypto" ->
            {"cryptocurrencies/" \o t[1] \o "_" \o t[2] \o "_crypto_data.json" : t \in crypto_pairs}
      [] method = "extract_forex" ->
            {"forex/" \o t[1] \o "_" \o t[2] \o "_forex_data.json" : t \in forex_pairs}

\* C23: on a raw root without domain subdirectories, every extraction
\* method whose client calls all succeeded has left one raw JSON file per
\* target at the path the specification names.
C23_RawFilesMaterialized ==
    rawdir.dirs = {} =>
        \A d \in rawdir.done : d.ok => ExpectedFiles(d.method) \subseteq rawdir.files

----------------------------------------------------------------------------
(* QueryAlphaVantage: a list of keys, the index of the key in use, and    *)
(* _make_request, which sends the request with the current key until a    *)
(* response is not a rate-limit message. One step is one HTTP request.    *)
(* Keys are named by their index; `limited` are the keys for which the    *)
(* provider answered with a rate-limit message, `reused` the keys sent    *)
(* again after that.                                                      *)

MaxKeys == 3
MaxRequests == 3

\* what the provider can answer: data without a message, a Note or
\* Information about the rate limit or call frequency, another message,
\* a status other than 200, a body that is not JSON
Responses == {"data", "rate_limit", "error_message", "http_error", "non_json"}

\* bug variant: an exhausted client starts over at the first key
rotate_api_key_reset(c) ==
    IF c.current_key_index < c.keys - 1
    THEN [raised |-> FALSE, index |-> c.current_key_index + 1]
    ELSE [raised |-> TRUE, index |-> 0]

\* _rotate_api_key: the next index, or the all-keys-exhausted error
rotate_api_key(c) ==
    IF c.current_key_index < c.keys - 1
    THEN [raised |-> FALSE, index |-> c.current_key_index + 1]
    ELSE [raised |-> TRUE, index |-> c.current_key_index]

\* requests.get with api_keys[current_key_index]
Requested(c, resp) ==
    [c EXCEPT !.requests = @ + 1, !.resp = resp, !.used = c.current_key_index,
              !.reused = @ \cup ({c.current_key_index} \cap c.limited)]

\* bug variant: the error of a failed rotation is swallowed and the loop goes on
after_response_swallowing(c, resp) ==
    IF resp = "data" THEN [c EXCEPT !.pc = "idle", !.outcome = "returned"]
    ELSE IF resp = "rate_limit"
    THEN [c EXCEPT !.limited = @ \cup {c.current_key_index},
                   !.current_key_index = rotate_api_key(c).index]
    ELSE [c EXCEPT !.pc = "idle", !.outcome = "error"]

\* lines 42-69: what _make_request does with the response
after_response(c, resp) ==
    IF resp = "data" THEN [c EXCEPT !.pc = "idle", !.outcome = "returned"]
    ELSE IF resp = "rate_limit"
    THEN IF rotate_api_key(c).raised
         THEN [c EXCEPT !.limited = @ \cup {c.current_key_index},
                        !.current_key_index = rotate_api_key(c).index,
                        !.pc = "idle", !.outcome = "exhausted"]
         ELSE [c EXCEPT !.limited = @ \cup {c.current_key_index},
                        !.current_key_index = rotate_api_key(c).index]
    ELSE [c EXCEPT !.pc = "idle", !.outcome = "error"]

\* a caller enters _make_request
BeginRequest ==
    /\ client.pc = "idle"
    /\ client.calls < MaxRequests
    /\ client' = [client EXCEPT !.pc = "requesting", !.entry = client.current_key_index,
                                !.requests = 0, !.outcome = "none", !.resp = "none",
                                !.calls = @ + 1]
    /\ UNCHANGED <<store, last, seen, ncalls, run, workers, rawdir, db>>

\* one pass of the while loop: a request and the handling of its response,
\* or the end of the loop (the method then returns None)
LoopPass(resp) ==
    /\ client.pc = "requesting"
    /\ client' = IF client.current_key_index < client.keys
                 THEN after_response(Requested(client, resp), resp)
                 ELSE [client EXCEPT !.pc = "idle", !.outcome = "fell_through"]
    /\ UNCHANGED <<store, last, seen, ncalls, run, workers, rawdir, db>>

InitClient ==
    /\ store = NoFiles
    /\ last = [op |-> "init"]
    /\ seen = {}
    /\ ncalls = 0
    /\ run = [status |-> "idle", root_exists |-> TRUE, root |-> <<>>, f |-> 1, k |-> 1,
              error |-> FALSE, log |-> <<>>]
    /\ workers = IdleWorkers
    /\ rawdir = FreshRaw
    /\ client \in {NewClient(n) : n \in 1..MaxKeys}
    /\ db = EmptyDb

NextClient ==
    \/ BeginRequest
    \/ \E resp \in Responses : LoopPass(resp)

SpecClient == InitClient /\ [][NextClient]_vars

\* C24: a call of _make_request makes at most (number of keys - index at
\* entry) requests and can make another one only below that number; a
\* rate-limit answer on a key that is not the last moves to the next key
\* and the call goes on; a rate-limit answer on the last key ends the call
\* with the all-keys-exhausted error; the call returns exactly on the first
\* answer without a message, and never ends without a result or an error.
C24_RotationTerminates ==
    /\ client.requests <= client.keys - client.entry
    /\ client.pc = "requesting" => client.requests < client.keys - client.entry
    /\ client.outcome # "fell_through"
    /\ (client.resp = "rate_limit" /\ client.used < client.keys - 1) =>
            (client.pc = "requesting" /\ client.current_key_index = client.used + 1)
    /\ (client.resp = "rate_limit" /\ client.used = client.keys - 1) =>
            (client.pc = "idle" /\ client.outcome = "exhausted")
    /\ client.outcome = "returned" <=> client.resp = "data"
    /\ (client.pc = "idle" /\ client.calls > 0) =>
            client.outcome \in {"returned", "exhausted", "error"}

\* a call that went through every key and ended with the exhausted error
C24_Witness ==
    /\ client.outcome = "exhausted"
    /\ client.entry = 0
    /\ client.requests = client.keys
    /\ client.keys = MaxKeys

\* C29 as stated: the index stays within 0..len-1 and never decreases, a
\* failing rotation leaves it unchanged, and no key is sent again after the
\* provider reported it rate-limited.
C29_KeyIndexInvariant ==
    [][/\ client'.current_key_index \in 0..(client'.keys - 1)
       /\ client'.current_key_index >= client.current_key_index
       /\ client'.outcome = "exhausted" => client'.current_key_index = client'.used
       /\ client'.reused = {}]_vars

\* C29, amended: as above, but only keys other than the last one are never
\* sent again after being reported rate-limited.
C29_KeyIndexMonotone ==
    [][/\ client'.current_key_index \in 0..(client'.keys - 1)
       /\ client'.current_key_index >= client.current_key_index
       /\ client'.outcome = "exhausted" => client'.current_key_index = client'.used
       /\ client'.reused \subseteq {client'.keys - 1}]_vars

\* after a rotation and an exhaustion, the last key is sent again and the
\* earlier key is not
C29_Witness ==
    /\ client.keys > 1
    /\ client.limited = 0..(client.keys - 1)
    /\ client.reused = {client.keys - 1}
    /\ client.current_key_index = client.keys - 1

----------------------------------------------------------------------------
(* The identity hasher on pairs of logical entities.                      *)

MaxArgs == 2

Sources == {Source, "Yahoo Financials"}
DataTypes == {"forex", "cryptocurrency"}
Discriminator == {"a", "b", "a|b", "b|a"}
Entities ==
    [source : Sources, data_type : DataTypes,
     args : UNION {[1..n -> Discriminator] : n \in 1..MaxArgs}]
Currency == {"A", "B", "A_B", "B_A"}

IdOf(e) == generate_hash_id(e.source, e.data_type, e.args)

\* generate_hash_id applied to two entities
HashBoth(a, b) ==
    /\ last.op = "init"
    /\ last' = [op |-> "generate_hash_id", a |-> a, b |-> b,
                id_a |-> IdOf(a), id_b |-> IdOf(b)]
    /\ UNCHANGED <<store, seen, ncalls, run, workers, rawdir, client, db>>

\* the id transform_forex gives to two currency pairs
ForexBoth(a, b) ==
    /\ last.op = "init"
    /\ last' = [op |-> "forex id", a |-> a, b |-> b,
                id_a |-> generate_hash_id(Source, "forex", <<ForexSymbol(a[1], a[2])>>),
                id_b |-> generate_hash_id(Source, "forex", <<ForexSymbol(b[1], b[2])>>)]
    /\ UNCHANGED <<store, seen, ncalls, run, workers, rawdir, client, db>>

NextHash ==
    \/ \E a, b \in Entities : HashBoth(a, b)
    \/ \E a, b \in Currency \X Currency : ForexBoth(a, b)

SpecHash == Init /\ [][NextHash]_vars

\* C25: two entities that differ in source, data_type or in any ordered
\* discriminator get different ids, and so do two forex pairs that differ in
\* the from or the to symbol, whatever characters the strings contain.
C25_IdentityInjective ==
    (last.op \in {"generate_hash_id", "forex id"} /\ last.a # last.b) =>
        last.id_a # last.id_b

\* C26: a transformer call that raises leaves every store file as it was
\* before the call.
C26_AllOrNothing ==
    (last.op \in {"transform", "financials"} /\ last.raised) => store = last.pre

----------------------------------------------------------------------------
(* The stores a whole run leaves, as a function of the listing.           *)

RECURSIVE FilesAfter(_, _, _)
\* the inner loop of transform() over the files of one folder
FilesAfter(st, folder, files) ==
    IF files = <<>> THEN [raised |-> FALSE, st |-> st]
    ELSE IF ~EndsWithJson(Head(files).name) THEN FilesAfter(st, folder, Tail(files))
    ELSE IF ~Head(files).readable THEN [raised |-> TRUE, st |-> st]
    ELSE LET r == transform_file(st, folder, Head(files).doc)
         IN IF r.raised THEN [raised |-> TRUE, st |-> r.st]
            ELSE FilesAfter(r.st, folder, Tail(files))

RECURSIVE EntriesAfter(_, _)
\* the outer loop of transform() over the entries of the raw root
EntriesAfter(st, root) ==
    IF root = <<>> THEN [raised |-> FALSE, st |-> st]
    ELSE IF ~Head(root).is_dir THEN EntriesAfter(st, Tail(root))
    ELSE LET r == IF Head(root).name = Yahoo
                  THEN transform_yahoo_financials(st, Head(root).dir)
                  ELSE FilesAfter(st, Head(root).name, Head(root).files)
         IN IF r.raised THEN [raised |-> TRUE, st |-> r.st]
            ELSE EntriesAfter(r.st, Tail(root))

\* the orders in which os.listdir can return the same tree
Perms(n) == {q \in [1..n -> 1..n] : \A i, j \in 1..n : q[i] = q[j] => i = j}
FilePerms(folder) ==
    {[folder EXCEPT !.files = [k \in DOMAIN folder.files |-> folder.files[q[k]]]] :
        q \in Perms(Len(folder.files))}
Listings(root) ==
    {r \in [DOMAIN root -> UNION {FilePerms(root[i]) : i \in DOMAIN root}] :
        \E q \in Perms(Len(root)) : \A i \in DOMAIN root : r[i] \in FilePerms(root[q[i]])}

\* the same files with the same columns and the same set of rows
SameContent(a, b) ==
    /\ DOMAIN a = DOMAIN b
    /\ \A path \in DOMAIN a :
          /\ a[path].cols = b[path].cols
          /\ Range(a[path].rows) = Range(b[path].rows)

\* C27: when transform() has returned without an error, the stores are the
\* ones the traversal computes for the listing it was given, and every other
\* listing of the same tree on which transform() succeeds leaves stores with
\* the same content.
C27_OrderIndependence ==
    (run.status = "returned" /\ ~run.error /\ run.root_exists) =>
        /\ store = EntriesAfter(NoFiles, run.root).st
        /\ \A other \in Listings(run.root) :
              ~EntriesAfter(NoFiles, other).raised =>
                  SameContent(EntriesAfter(NoFiles, other).st, store)

\* C28: a call of _upsert_csv that does not raise leaves exactly the keys
\* of the store before the call united with the keys of the batch, and a
\* call that raises leaves the store as it was; so no call removes a key.
C28_KeysOnlyGrow ==
    last.op = "upsert" =>
        LET sub   == KeyColumns(last.path)
            now   == FileAt(store, last.path)
            pre   == FileAt(last.pre, last.path)
            batch == ToCsv(last.df)
        IN /\ FileKeys(pre, sub) \subseteq FileKeys(now, sub)
           /\ IF last.raised THEN now = pre
              ELSE FileKeys(now, sub) = FileKeys(pre, sub) \cup FileKeys(batch, sub)

\* a merge into a store that holds a key the batch lacks, of a batch that
\* holds a key the store lacks
C28_Witness ==
    /\ last.op = "upsert" /\ ~last.raised
    /\ FileKeys(FileAt(last.pre, last.path), KeyColumns(last.path))
            \ FileKeys(ToCsv(last.df), KeyColumns(last.path)) # {}
    /\ FileKeys(ToCsv(last.df), KeyColumns(last.path))
            \ FileKeys(FileAt(last.pre, last.path), KeyColumns(last.path)) # {}

----------------------------------------------------------------------------
(* The loader: one table per processed CSV file, filled by COPY.          *)

MaxLoads == 2

\* Load.load_data. A missing table is created by to_sql from the first data
\* row of the file, which to_sql also inserts; read_csv raises on a blank
\* file. COPY ... HEADER TRUE then appends every data row of the file.
load_data(tables, path, file) ==
    IF path \notin DOMAIN tables /\ file.cols = {}
    THEN [raised |-> TRUE, tables |-> tables]
    ELSE LET created == IF path \in DOMAIN tables THEN tables[path]
                        ELSE IF file.rows = <<>> THEN <<>> ELSE <<file.rows[1]>>
         IN [raised |-> FALSE, tables |-> (path :> (created \o file.rows)) @@ tables]

RECURSIVE LoadAll(_, _)
\* the loop of Load.populate over the files found; a raise ends it
LoadAll(tables, paths) ==
    IF paths = {} THEN [raised |-> FALSE, tables |-> tables]
    ELSE LET path == CHOOSE q \in paths : TRUE
             r    == load_data(tables, path, store[path])
         IN IF r.raised THEN r ELSE LoadAll(r.tables, paths \ {path})

\* the transform stage writes a processed file, before the first load
Stage(df) ==
    /\ db.loads = 0
    /\ UpsertCall(CommTs, df)

\* Load.populate over the processed files as they are
populate ==
    /\ db.loads < MaxLoads
    /\ ~db.raised
    /\ db' = [tables |-> LoadAll(db.tables, DOMAIN store).tables,
              loads |-> db.loads + 1,
              raised |-> LoadAll(db.tables, DOMAIN store).raised]
    /\ UNCHANGED <<store, last, seen, ncalls, run, workers, rawdir, client>>

NextLoad ==
    \/ \E df \in Batches : Stage(df)
    \/ populate

SpecLoad == Init /\ [][NextLoad]_vars

\* C30: after populate() has run without an error, once or again over the
\* same files, every processed file has a table that holds exactly the
\* data rows of the file, each as often as the file does.
C30_TableMirrorsFile ==
    (db.loads > 0 /\ ~db.raised) =>
        \A path \in DOMAIN store :
            path \in DOMAIN db.tables /\ db.tables[path] = store[path].rows
====
